---- MODULE Spec2Model ----
(***************************************************************************)
(* A model of the RO-Crate consolidation engine (src/src/consolidate.rs    *)
(* and the modules it drives: id.rs, collect.rs, merge.rs, transform.rs).  *)
(*                                                                         *)
(* Strings are sequences of one-character strings, so that prefix, suffix  *)
(* and formatting operations are computed as the code computes them.       *)
(* A JSON value is a tagged record: Str(s), Arr(a) or Obj(o), where o is a *)
(* function from property names to values.                                 *)
(***************************************************************************)
EXTENDS Integers, Sequences, FiniteSets, TLC

----------------------------------------------------------------------------
(* String helpers (Rust str methods).                                      *)

StartsWith(s, p) ==
    Len(s) >= Len(p) /\ SubSeq(s, 1, Len(p)) = p

EndsWith(s, p) ==
    Len(s) >= Len(p) /\ SubSeq(s, Len(s) - Len(p) + 1, Len(s)) = p

\* str::strip_prefix(p).unwrap_or(s)
StripPrefixOr(s, p) ==
    IF StartsWith(s, p) THEN SubSeq(s, Len(p) + 1, Len(s)) ELSE s

\* str::trim_end_matches(c) for a single character c
TrimEndMatches(s, c) ==
    LET keep == {i \in 1..Len(s) : s[i] # c}
        last == IF keep = {} THEN 0 ELSE CHOOSE i \in keep : \A j \in keep : j <= i
    IN  SubSeq(s, 1, last)

\* str::rfind(c): the last index of character c, 0 when absent
RFind(s, c) ==
    LET at == {i \in 1..Len(s) : s[i] = c}
    IN  IF at = {} THEN 0 ELSE CHOOSE i \in at : \A j \in at : j <= i

\* str::find(p): the first index where p starts, 0 when absent
Find(s, p) ==
    LET at == {i \in 1..(Len(s) - Len(p) + 1) : SubSeq(s, i, i + Len(p) - 1) = p}
    IN  IF at = {} THEN 0 ELSE CHOOSE i \in at : \A j \in at : i <= j

----------------------------------------------------------------------------
(* Vocabulary (src/src/vocab.rs) and the literals of id.rs / collect.rs.   *)

ROOT_ENTITY_ID == <<".", "/">>

METADATA_DESCRIPTOR_ID ==
    <<"r", "o", "-", "c", "r", "a", "t", "e", "-", "m", "e", "t", "a", "d", "a",
      "t", "a", ".", "j", "s", "o", "n">>

ROCRATE_PROFILE_PREFIX ==
    <<"h", "t", "t", "p", "s", ":", "/", "/", "w", "3", "i", "d", ".", "o", "r",
      "g", "/", "r", "o", "/", "c", "r", "a", "t", "e", "/">>

ROCRATE_BARE ==
    <<"h", "t", "t", "p", "s", ":", "/", "/", "w", "3", "i", "d", ".", "o", "r",
      "g", "/", "r", "o", "/", "c", "r", "a", "t", "e">>

ROCRATE_HASH == ROCRATE_BARE \o <<"#">>

HTTP == <<"h", "t", "t", "p", ":", "/", "/">>
HTTPS == <<"h", "t", "t", "p", "s", ":", "/", "/">>
URN == <<"u", "r", "n", ":">>
MAILTO == <<"m", "a", "i", "l", "t", "o", ":">>
ARCP == <<"a", "r", "c", "p", ":">>
DOTSLASH == <<".", "/">>
SCHEME_SEP == <<":", "/", "/">>

SUBCRATE_TYPE_SHORT == <<"S", "u", "b", "c", "r", "a", "t", "e">>
DATASET == <<"D", "a", "t", "a", "s", "e", "t">>

----------------------------------------------------------------------------
(* JSON values (serde_json::Value).                                        *)

Str(s) == [k |-> "str", v |-> s]
Arr(a) == [k |-> "arr", v |-> a]
Obj(o) == [k |-> "obj", v |-> o]

IsStr(x) == x.k = "str"
IsArr(x) == x.k = "arr"
IsObj(x) == x.k = "obj"

\* Option<T>: None is the empty sequence, Some(x) the one-element sequence
None == << >>
Some(x) == <<x>>
IsSome(o) == Len(o) = 1

HasKey(x, key) == IsObj(x) /\ key \in DOMAIN x.v

\* A reference object {"@id": id}
Ref(id) == Obj("@id" :> Str(id))

----------------------------------------------------------------------------
(* Identifier classification and rewriting (src/src/id.rs).                *)

classify_id(id) ==
    IF id = ROOT_ENTITY_ID THEN "Root"
    ELSE IF EndsWith(id, METADATA_DESCRIPTOR_ID) THEN "MetadataDescriptor"
    ELSE IF StartsWith(id, <<"#">>) THEN "Fragment"
    ELSE IF \/ StartsWith(id, HTTP)
            \/ StartsWith(id, HTTPS)
            \/ StartsWith(id, URN)
            \/ StartsWith(id, MAILTO)
            \/ StartsWith(id, ARCP)
         THEN "Absolute"
    ELSE "Relative"

\* a rewrite that keeps the leading "./" of a Relative id
rewrite_id_KeepingPrefix(id, namespace, used_fragments) ==
    IF namespace # << >> /\ classify_id(id) \in {"Root", "Relative"}
    THEN [id |-> DOTSLASH \o namespace \o <<"/">> \o id, changed |-> TRUE,
          used |-> used_fragments]
    ELSE [id |-> id, changed |-> FALSE, used |-> used_fragments]

\* rewrite_id returns the rewritten id, the changed flag and the updated
\* set of used fragments (the &mut HashSet argument).
rewrite_id(id, namespace, used_fragments) ==
    IF namespace = << >>
    THEN [id |-> id, changed |-> FALSE, used |-> used_fragments]
    ELSE LET kind == classify_id(id) IN
         IF kind = "Root"
         THEN [id |-> DOTSLASH \o namespace \o <<"/">>, changed |-> TRUE,
               used |-> used_fragments]
         ELSE IF kind = "Relative"
         THEN [id |-> DOTSLASH \o namespace \o <<"/">> \o StripPrefixOr(id, DOTSLASH),
               changed |-> TRUE, used |-> used_fragments]
         ELSE IF kind = "Fragment"
         THEN IF id \in used_fragments
              THEN LET new_id == <<"#">> \o namespace \o <<"-">> \o Tail(id)
                   IN  [id |-> new_id, changed |-> TRUE,
                        used |-> used_fragments \cup {new_id}]
              ELSE [id |-> id, changed |-> FALSE, used |-> used_fragments \cup {id}]
         ELSE [id |-> id, changed |-> FALSE, used |-> used_fragments]

\* build_id_map over the ids in order; returns [map, used].  A later insert
\* for the same original id overwrites the earlier one (HashMap::insert).
RECURSIVE build_id_map_from(_, _, _, _, _)
build_id_map_from(ids, i, namespace, map, used) ==
    IF i > Len(ids) THEN [map |-> map, used |-> used]
    ELSE LET r == rewrite_id(ids[i], namespace, used)
             m == IF r.changed
                  THEN [x \in (DOMAIN map) \cup {ids[i]} |->
                            IF x = ids[i] THEN r.id ELSE map[x]]
                  ELSE map
         IN  build_id_map_from(ids, i + 1, namespace, m, r.used)

EmptyMap == [x \in {} |-> << >>]

build_id_map(ids, namespace, used_fragments) ==
    build_id_map_from(ids, 1, namespace, EmptyMap, used_fragments)

\* rewrite_references: every mapping node whose "@id" string is a key of
\* id_map gets the mapped id; then all children are visited.
RECURSIVE rewrite_references(_, _)
rewrite_references(value, id_map) ==
    IF IsObj(value)
    THEN LET o == value.v
             o1 == IF /\ "@id" \in DOMAIN o
                      /\ IsStr(o["@id"])
                      /\ o["@id"].v \in DOMAIN id_map
                   THEN [o EXCEPT !["@id"] = Str(id_map[o["@id"].v])]
                   ELSE o
         IN  Obj([key \in DOMAIN o1 |-> rewrite_references(o1[key], id_map)])
    ELSE IF IsArr(value)
    THEN Arr([i \in 1..Len(value.v) |-> rewrite_references(value.v[i], id_map)])
    ELSE value

namespace_from_folder_id(folder_id) ==
    IF StartsWith(folder_id, HTTP) \/ StartsWith(folder_id, HTTPS)
    THEN LET without_trailing == TrimEndMatches(folder_id, "/")
             pos == RFind(without_trailing, "/")
             segment == SubSeq(without_trailing, pos + 1, Len(without_trailing))
             start == Find(folder_id, SCHEME_SEP)
             after_scheme == SubSeq(folder_id, start + 3, Len(folder_id))
             slash_pos == Find(after_scheme, <<"/">>)
         IN  IF pos # 0 /\ segment # << >> THEN segment
             ELSE IF start # 0 /\ slash_pos # 0
             THEN TrimEndMatches(SubSeq(after_scheme, slash_pos + 1, Len(after_scheme)), "/")
             ELSE folder_id
    ELSE TrimEndMatches(StripPrefixOr(folder_id, DOTSLASH), "/")

\* validate_folder_id: TRUE for Ok(()), FALSE for Err(_)
validate_folder_id(folder_id) ==
    /\ folder_id # << >>
    /\ folder_id # DOTSLASH
    /\ EndsWith(folder_id, <<"/">>)
    /\ ~(StartsWith(folder_id, HTTP) \/ StartsWith(folder_id, HTTPS))

----------------------------------------------------------------------------
(* Sequence helpers.                                                       *)

Map1(s, F(_)) == [i \in 1..Len(s) |-> F(s[i])]

InSeq(s, x) == \E i \in 1..Len(s) : s[i] = x

----------------------------------------------------------------------------
(* Entity collection (src/src/collect.rs).                                 *)

\* extract_id: Option<&str>
extract_id(entity) ==
    IF HasKey(entity, "@id") /\ IsStr(entity.v["@id"])
    THEN Some(entity.v["@id"].v) ELSE None

extract_types(entity) ==
    IF ~HasKey(entity, "@type") THEN << >>
    ELSE LET t == entity.v["@type"] IN
         IF IsStr(t) THEN <<t.v>>
         ELSE IF IsArr(t)
         THEN LET strs == SelectSeq(t.v, IsStr) IN Map1(strs, LAMBDA x : x.v)
         ELSE << >>

has_type(entity, type_name) == InSeq(extract_types(entity), type_name)

is_rocrate_conformance(id) ==
    \/ StartsWith(id, ROCRATE_PROFILE_PREFIX)
    \/ id = ROCRATE_BARE
    \/ StartsWith(id, ROCRATE_HASH)

\* the check_id closure of conforms_to_rocrate / is_rocrate_conforms_to
check_id(x) ==
    /\ HasKey(x, "@id")
    /\ IsStr(x.v["@id"])
    /\ is_rocrate_conformance(x.v["@id"].v)

\* the match on the conformsTo value, shared by collect.rs and transform.rs
is_rocrate_conforms_to(value) ==
    IF IsObj(value) THEN check_id(value)
    ELSE IF IsArr(value) THEN \E i \in 1..Len(value.v) : check_id(value.v[i])
    ELSE IF IsStr(value) THEN is_rocrate_conformance(value.v)
    ELSE FALSE

conforms_to_rocrate(entity) ==
    HasKey(entity, "conformsTo") /\ is_rocrate_conforms_to(entity.v["conformsTo"])

\* a test that takes any entity conforming to RO-Crate for a subcrate
is_subcrate_ref_AnyType(entity) == conforms_to_rocrate(entity)

is_subcrate_ref(entity) ==
    has_type(entity, DATASET) /\ conforms_to_rocrate(entity)

CollectedEntity(entity, namespace) ==
    [entity |-> entity, original_id |-> extract_id(entity)[1], namespace |-> namespace]

IdKindOf(entity) ==
    IF IsSome(extract_id(entity)) THEN classify_id(extract_id(entity)[1]) ELSE "NoId"

IsLocalEntity(entity) == IdKindOf(entity) \in {"Relative", "Fragment"}
IsSharedEntity(entity) == IdKindOf(entity) = "Absolute"
IsRootEntity(entity) == IdKindOf(entity) = "Root"
IsDescriptorEntity(entity) == IdKindOf(entity) = "MetadataDescriptor"

\* the last element of s satisfying Test, as an Option
LastWhere(s, Test(_)) ==
    LET at == {i \in 1..Len(s) : Test(s[i])}
    IN  IF at = {} THEN None
        ELSE Some(s[CHOOSE i \in at : \A j \in at : j <= i])

\* a collection that leaves the entities with a Fragment identifier out
collect_from_graph_DroppingFragments(graph, namespace) ==
    LET coll(e) == CollectedEntity(e, namespace)
        isRel(e) == IdKindOf(e) = "Relative"
        isSub(e) ==
            /\ IdKindOf(e) \in {"Absolute", "Relative", "Fragment"}
            /\ is_subcrate_ref(e)
            /\ (IsLocalEntity(e) => extract_id(e)[1] # ROOT_ENTITY_ID)
        root == LastWhere(graph, IsRootEntity)
        desc == LastWhere(graph, IsDescriptorEntity)
    IN  [ local_entities  |-> Map1(SelectSeq(graph, isRel), coll),
          shared_entities |-> Map1(SelectSeq(graph, IsSharedEntity), coll),
          subcrate_ids    |-> Map1(SelectSeq(graph, isSub), LAMBDA e : extract_id(e)[1]),
          root_entity     |-> Map1(root, coll),
          metadata_descriptor |-> Map1(desc, coll) ]

collect_from_graph(graph, namespace) ==
    LET coll(e) == CollectedEntity(e, namespace)
        isSub(e) ==
            /\ IdKindOf(e) \in {"Absolute", "Relative", "Fragment"}
            /\ is_subcrate_ref(e)
            /\ (IsLocalEntity(e) => extract_id(e)[1] # ROOT_ENTITY_ID)
        root == LastWhere(graph, IsRootEntity)
        desc == LastWhere(graph, IsDescriptorEntity)
    IN  [ local_entities  |-> Map1(SelectSeq(graph, IsLocalEntity), coll),
          shared_entities |-> Map1(SelectSeq(graph, IsSharedEntity), coll),
          subcrate_ids    |-> Map1(SelectSeq(graph, isSub), LAMBDA e : extract_id(e)[1]),
          root_entity     |-> Map1(root, coll),
          metadata_descriptor |-> Map1(desc, coll) ]

----------------------------------------------------------------------------
(* Union merge (src/src/merge.rs).                                         *)

values_equal(a, b) ==
    IF IsObj(a) /\ IsObj(b)
    THEN IF /\ Cardinality(DOMAIN a.v) = 1
            /\ Cardinality(DOMAIN b.v) = 1
            /\ "@id" \in DOMAIN a.v
            /\ "@id" \in DOMAIN b.v
         THEN a.v["@id"] = b.v["@id"]
         ELSE a.v = b.v
    ELSE a = b

\* a membership test that finds nothing
contains_value_Never(arr, value) == FALSE

contains_value(arr, value) == \E i \in 1..Len(arr) : values_equal(arr[i], value)

\* a union that keeps only the items of arr
PushNovel_KeepingLeft(arr, more) == arr

\* arr followed by the items of more not already present (semantic equality)
RECURSIVE PushNovel(_, _)
PushNovel(arr, more) ==
    IF more = << >> THEN arr
    ELSE PushNovel(IF contains_value(arr, Head(more)) THEN arr
                   ELSE Append(arr, Head(more)),
                   Tail(more))

RECURSIVE union_merge_values(_, _)
union_merge_values(a, b) ==
    IF values_equal(a, b) THEN a
    ELSE IF IsArr(a) /\ IsArr(b) THEN Arr(PushNovel(a.v, b.v))
    ELSE IF IsArr(a) THEN Arr(PushNovel(a.v, <<b>>))
    ELSE IF IsArr(b) THEN Arr(PushNovel(b.v, <<a>>))
    ELSE IF IsObj(a) /\ IsObj(b)
    THEN \* merge_objects
         Obj([key \in (DOMAIN a.v) \cup (DOMAIN b.v) |->
                IF key \in DOMAIN a.v /\ key \in DOMAIN b.v
                THEN union_merge_values(a.v[key], b.v[key])
                ELSE IF key \in DOMAIN a.v THEN a.v[key] ELSE b.v[key]])
    ELSE Arr(<<a, b>>)

RECURSIVE PushNovelStr(_, _)
PushNovelStr(arr, more) ==
    IF more = << >> THEN arr
    ELSE PushNovelStr(IF InSeq(arr, Head(more)) THEN arr ELSE Append(arr, Head(more)),
                      Tail(more))

merge_type_arrays(a, b) == PushNovelStr(a, b)

\* an encoding of the type names that is always a list
TypeValue_AlwaysList(types) == Arr(Map1(types, Str))

\* a list of type names as a "@type" value: bare string when exactly one
TypeValue(types) ==
    IF Len(types) = 1 THEN Str(types[1]) ELSE Arr(Map1(types, Str))

union_merge_entities(a, b) ==
    IF ~IsObj(a) \/ ~IsObj(b) THEN a
    ELSE LET merged_types == merge_type_arrays(extract_types(a), extract_types(b))
             all_keys == ((DOMAIN a.v) \cup (DOMAIN b.v)) \ {"@id", "@type"}
             keys == all_keys
                     \cup (IF "@id" \in DOMAIN a.v THEN {"@id"} ELSE {})
                     \cup (IF merged_types # << >> THEN {"@type"} ELSE {})
         IN  Obj([key \in keys |->
                    IF key = "@id" THEN a.v["@id"]
                    ELSE IF key = "@type" THEN TypeValue(merged_types)
                    ELSE IF key \in DOMAIN a.v /\ key \in DOMAIN b.v
                    THEN union_merge_values(a.v[key], b.v[key])
                    ELSE IF key \in DOMAIN a.v THEN a.v[key] ELSE b.v[key]])

RECURSIVE Reduce(_, _)
Reduce(acc, rest) ==
    IF rest = << >> THEN acc
    ELSE Reduce(union_merge_entities(acc, Head(rest)), Tail(rest))

\* the distinct original ids of a list of collected entities
GroupIds(entities) == {entities[i].original_id : i \in 1..Len(entities)}

\* one group of merge_by_id: verbatim when alone, else the left fold
MergeGroup(entities, id) ==
    LET grp == SelectSeq(entities, LAMBDA c : c.original_id = id)
        vals == Map1(grp, LAMBDA c : c.entity)
    IN  Reduce(Head(vals), Tail(vals))

\* merge_by_id returns one entity per group; the order of the groups is the
\* iteration order of a HashMap, so every order is possible.
merge_by_id_orders(entities) ==
    LET ids == GroupIds(entities)
        n == Cardinality(ids)
        orders == {f \in [1..n -> ids] : \A i, j \in 1..n : i # j => f[i] # f[j]}
    IN  {[i \in 1..n |-> MergeGroup(entities, f[i])] : f \in orders}

----------------------------------------------------------------------------
(* Subcrate folder synthesis (src/src/transform.rs).                       *)

should_strip_property(key, value) ==
    IF key = "subjectOf" THEN TRUE
    ELSE IF key = "conformsTo" THEN is_rocrate_conforms_to(value)
    ELSE FALSE

\* parent_folder is an Option<&Value>
create_subcrate_folder(folder_id, parent_folder, subcrate_root, consolidated_entity_ids, add_subcrate_type) ==
    LET hasParent == IsSome(parent_folder) /\ IsObj(parent_folder[1])
        p == IF hasParent THEN parent_folder[1].v ELSE EmptyMap
        r == IF IsObj(subcrate_root) THEN subcrate_root.v ELSE EmptyMap
        pKeys == {key \in DOMAIN p :
                    key \notin {"@id", "@type"} /\ ~should_strip_property(key, p[key])}
        rKeys == {key \in DOMAIN r :
                    key \notin {"@id", "@type"} /\ ~should_strip_property(key, r[key])}
        types0 == <<DATASET>> \o (IF add_subcrate_type THEN <<SUBCRATE_TYPE_SHORT>> ELSE << >>)
        notDataset(t) == t # DATASET
        types1 == IF hasParent
                  THEN PushNovelStr(types0,
                           SelectSeq(extract_types(parent_folder[1]), notDataset))
                  ELSE types0
        types == PushNovelStr(types1, SelectSeq(extract_types(subcrate_root), notDataset))
        keys == pKeys \cup rKeys \cup {"@id", "@type"}
                \cup (IF consolidated_entity_ids # << >>
                      THEN {"consolidatedEntities"} ELSE {})
    IN  Obj([key \in keys |->
               IF key = "consolidatedEntities" /\ consolidated_entity_ids # << >>
               THEN Arr(Map1(consolidated_entity_ids, Ref))
               ELSE IF key = "@type" THEN TypeValue(types)
               ELSE IF key = "@id" THEN Str(folder_id)
               ELSE IF key \in pKeys /\ key \in rKeys
               THEN union_merge_values(p[key], r[key])
               ELSE IF key \in rKeys THEN r[key] ELSE p[key]])

\* an update that replaces the parts of the root by the folder references
update_root_has_part_Replacing(root, subcrate_folder_ids) ==
    IF ~IsObj(root) \/ subcrate_folder_ids = << >> THEN root
    ELSE Obj([key \in (DOMAIN root.v) \cup {"hasPart"} |->
                IF key = "hasPart" THEN Arr(Map1(subcrate_folder_ids, Ref))
                ELSE root.v[key]])

update_root_has_part(root, subcrate_folder_ids) ==
    IF ~IsObj(root) THEN root
    ELSE LET has_part0 ==
                 IF "hasPart" \notin DOMAIN root.v THEN << >>
                 ELSE IF IsArr(root.v["hasPart"]) THEN root.v["hasPart"].v
                 ELSE <<root.v["hasPart"]>>
             refs == Map1(subcrate_folder_ids, Ref)
             novel(arr, x) == \A i \in 1..Len(arr) : arr[i] # x
             has_part ==
                 LET RECURSIVE push(_, _)
                     push(arr, more) ==
                         IF more = << >> THEN arr
                         ELSE push(IF novel(arr, Head(more)) THEN Append(arr, Head(more))
                                   ELSE arr, Tail(more))
                 IN  push(has_part0, refs)
         IN  IF has_part = << >> THEN root
             ELSE Obj([key \in (DOMAIN root.v) \cup {"hasPart"} |->
                         IF key = "hasPart" THEN Arr(has_part) ELSE root.v[key]])

----------------------------------------------------------------------------
(* The hierarchy walker (src/src/consolidate.rs).                          *)

\* a collection that rewrites the shared entities like the local ones
CollectCrate_RewritingShared(graph, namespace, used_fragments) ==
    LET collection == collect_from_graph(graph, namespace)
        ids == Map1(collection.local_entities, LAMBDA c : c.original_id)
               \o Map1(collection.root_entity, LAMBDA c : c.original_id)
        built == build_id_map(ids, namespace, used_fragments)
        id_map == built.map
        rewrite(c) ==
            LET e1 == IF c.original_id \in DOMAIN id_map /\ IsObj(c.entity)
                      THEN Obj([c.entity.v EXCEPT !["@id"] = Str(id_map[c.original_id])])
                      ELSE c.entity
            IN  [c EXCEPT !.entity = rewrite_references(e1, id_map)]
    IN  [ local  |-> Map1(collection.local_entities, rewrite),
          shared |-> Map1(collection.shared_entities, rewrite),
          subcrate_ids |-> collection.subcrate_ids,
          root |-> IF namespace = << >>
                   THEN Map1(collection.root_entity, LAMBDA c : c.entity) ELSE None,
          desc |-> IF namespace = << >>
                   THEN Map1(collection.metadata_descriptor, LAMBDA c : c.entity)
                   ELSE None,
          used |-> built.used ]

\* The body of collect_hierarchy up to the loop over the discovered
\* subcrates: collect, build the id map, capture root and descriptor when
\* the namespace is empty, rewrite the local entities.
CollectCrate(graph, namespace, used_fragments) ==
    LET collection == collect_from_graph(graph, namespace)
        ids == Map1(collection.local_entities, LAMBDA c : c.original_id)
               \o Map1(collection.root_entity, LAMBDA c : c.original_id)
        built == build_id_map(ids, namespace, used_fragments)
        id_map == built.map
        rewrite(c) ==
            LET e1 == IF c.original_id \in DOMAIN id_map /\ IsObj(c.entity)
                      THEN Obj([c.entity.v EXCEPT !["@id"] = Str(id_map[c.original_id])])
                      ELSE c.entity
            IN  [c EXCEPT !.entity = rewrite_references(e1, id_map)]
    IN  [ local  |-> Map1(collection.local_entities, rewrite),
          shared |-> collection.shared_entities,
          subcrate_ids |-> collection.subcrate_ids,
          root |-> IF namespace = << >>
                   THEN Map1(collection.root_entity, LAMBDA c : c.entity) ELSE None,
          desc |-> IF namespace = << >>
                   THEN Map1(collection.metadata_descriptor, LAMBDA c : c.entity)
                   ELSE None,
          used |-> built.used ]

\* the namespace of a discovered subcrate under its parent's namespace
SubcrateNamespace(namespace, subcrate_id) ==
    IF namespace = << >> THEN namespace_from_folder_id(subcrate_id)
    ELSE namespace \o <<"/">> \o namespace_from_folder_id(subcrate_id)

\* a provenance list that names the entities by their original ids
ContainedIds_OriginalIds(locals, ns) ==
    LET inNs(c) == c.namespace = ns \/ StartsWith(c.namespace, ns \o <<"/">>)
    IN  Map1(SelectSeq(locals, inNs), LAMBDA c : c.original_id)

\* the rewritten ids of the accumulated local entities that originate from
\* namespace ns or from a namespace nested beneath it
ContainedIds(locals, ns) ==
    LET inNs(c) == c.namespace = ns \/ StartsWith(c.namespace, ns \o <<"/">>)
        hasId(c) == IsSome(extract_id(c.entity))
    IN  Map1(SelectSeq(SelectSeq(locals, inNs), hasId), LAMBDA c : extract_id(c.entity)[1])

\* graph.iter().find(|e| extract_id(e) == Some(subcrate_id))
FindById(graph, id) ==
    LET at == {i \in 1..Len(graph) : extract_id(graph[i]) = Some(id)}
    IN  IF at = {} THEN None ELSE Some(graph[CHOOSE i \in at : \A j \in at : i <= j])

\* the folder id chosen for a discovered subcrate
DiscoveredFolderId(namespace, subcrate_id, subcrate_namespace) ==
    IF namespace = << >> THEN subcrate_id
    ELSE DOTSLASH \o subcrate_namespace \o <<"/">>

\* a merge that fabricates no parent reference from the display name
SyntheticParent_Dropped(folder_id, name) == None

\* the synthetic parent reference of an explicit merge (name: Option<String>)
SyntheticParent(folder_id, name) ==
    Map1(name, LAMBDA n : Obj("@id" :> Str(folder_id) @@ "@type" :> Str(DATASET)
                              @@ "name" :> Str(n)))

\* an assembly that puts the folders ahead of the local entities
FinalGraph_FoldersFirst(desc, root, locals, folders, merged_shared) ==
    LET hasId(f) == IsSome(extract_id(f))
        folder_ids == Map1(SelectSeq(folders, hasId), LAMBDA f : extract_id(f)[1])
    IN  <<desc, update_root_has_part(root, folder_ids)>>
        \o folders
        \o Map1(locals, LAMBDA c : c.entity)
        \o merged_shared

\* the assembly of the final graph from the accumulators
FinalGraph(desc, root, locals, folders, merged_shared) ==
    LET hasId(f) == IsSome(extract_id(f))
        folder_ids == Map1(SelectSeq(folders, hasId), LAMBDA f : extract_id(f)[1])
    IN  <<desc, update_root_has_part(root, folder_ids)>>
        \o Map1(locals, LAMBDA c : c.entity)
        \o folders
        \o merged_shared

----------------------------------------------------------------------------
(* Bounds and inputs.                                                      *)

\* the deepest call stack of collect_hierarchy the model follows
MaxDepth == 3
\* the largest number of explicit merge entries
MaxMerges == 2

VARIABLES
    input,               \* [main, others, add_subcrate_type]: the arguments
    pc,                  \* "start", "walk", "merge" or "done"
    stack,               \* the active calls of collect_hierarchy, innermost last
    visited,             \* HashSet of namespaces
    fragment_tracker,    \* HashSet of fragment ids
    all_local,           \* Vec<CollectedEntity>
    all_shared,          \* Vec<CollectedEntity>
    subcrate_folders,    \* Vec<Value>
    root_entity,         \* Option<Value>
    metadata_descriptor, \* Option<Value>
    stats,               \* ConsolidateStats
    merge_idx,           \* index of the explicit merge entry in progress
    result,              \* the returned Result
    loader_calls         \* history: the calls made to loader.load, in order

vars == <<input, pc, stack, visited, fragment_tracker, all_local, all_shared,
          subcrate_folders, root_entity, metadata_descriptor, stats, merge_idx,
          result, loader_calls>>

Running == [status |-> "running", error |-> "", graph |-> << >>]
Err(e) == [status |-> "Err", error |-> e, graph |-> << >>]
Ok(g) == [status |-> "Ok", error |-> "", graph |-> g]

\* one active call of collect_hierarchy
Frame(kind, doc, graph, namespace, subcrate_id, cc) ==
    [ kind |-> kind, doc |-> doc, graph |-> graph, namespace |-> namespace,
      subcrate_id |-> subcrate_id, subcrate_ids |-> cc.subcrate_ids, next |-> 1,
      root_slot |-> cc.root, desc_slot |-> cc.desc ]

Top == stack[Len(stack)]
Pop == SubSeq(stack, 1, Len(stack) - 1)

AtSubcrate ==
    /\ pc = "walk"
    /\ stack # << >>
    /\ Top.next <= Len(Top.subcrate_ids)

CurId == Top.subcrate_ids[Top.next]
CurNamespace == SubcrateNamespace(Top.namespace, CurId)

\* a skip that abandons the remaining references of the parent
Advance_SkippingRest ==
    [stack EXCEPT ![Len(stack)].next = Len(stack[Len(stack)].subcrate_ids) + 1]

\* `continue`: the loop moves to the parent's next reference
Advance == [stack EXCEPT ![Len(stack)].next = @ + 1]

\* an entry that lets any document's root and descriptor become the run's
Enter_CapturingAnywhere(kind, doc, graph, namespace, subcrate_id, base) ==
    LET cc == CollectCrate(graph, namespace, fragment_tracker)
        found == collect_from_graph(graph, namespace)
    IN
    /\ stats' = [stats EXCEPT !.crates_consolidated = @ + 1]
    /\ fragment_tracker' = cc.used
    /\ all_local' = all_local \o cc.local
    /\ all_shared' = all_shared \o cc.shared
    /\ stack' = Append(base, Frame(kind, doc, graph, namespace, subcrate_id, cc))
    /\ root_entity' = IF IsSome(found.root_entity)
                      THEN Some(found.root_entity[1].entity) ELSE root_entity
    /\ metadata_descriptor' = IF IsSome(found.metadata_descriptor)
                              THEN Some(found.metadata_descriptor[1].entity)
                              ELSE metadata_descriptor

\* an entry that counts the top-level crate only
Enter_CountingMainOnly(kind, doc, graph, namespace, subcrate_id, base) ==
    LET cc == CollectCrate(graph, namespace, fragment_tracker) IN
    /\ stats' = [stats EXCEPT !.crates_consolidated = IF kind = "main" THEN @ + 1 ELSE @]
    /\ fragment_tracker' = cc.used
    /\ all_local' = all_local \o cc.local
    /\ all_shared' = all_shared \o cc.shared
    /\ stack' = Append(base, Frame(kind, doc, graph, namespace, subcrate_id, cc))
    /\ IF kind = "main"
       THEN /\ root_entity' = cc.root
            /\ metadata_descriptor' = cc.desc
       ELSE UNCHANGED <<root_entity, metadata_descriptor>>

\* collect_hierarchy entered for (graph, namespace): the accumulators after
\* lines 280-326 and the new frame
Enter(kind, doc, graph, namespace, subcrate_id, base) ==
    LET cc == CollectCrate(graph, namespace, fragment_tracker) IN
    /\ stats' = [stats EXCEPT !.crates_consolidated = @ + 1]
    /\ fragment_tracker' = cc.used
    /\ all_local' = all_local \o cc.local
    /\ all_shared' = all_shared \o cc.shared
    /\ stack' = Append(base, Frame(kind, doc, graph, namespace, subcrate_id, cc))
    /\ IF kind = "main"
       THEN /\ root_entity' = cc.root
            /\ metadata_descriptor' = cc.desc
       ELSE UNCHANGED <<root_entity, metadata_descriptor>>

----------------------------------------------------------------------------
(* The documents the runs are given.                                       *)

ID_D == <<".", "/", "d">>
ID_P == <<"#", "p">>
ID_A == <<".", "/", "a", "/">>
ID_B == <<".", "/", "b", "/">>
ID_AD == <<".", "/", "a", "/", "d">>
ID_SLASH == <<"/">>
ID_URN == <<"u", "r", "n", ":", "p">>
ID_ABS_A == <<"h", "t", "t", "p", "s", ":", "/", "/", "e", "/", "a", "/">>
ID_META_FRAG == <<"#", "m", "e", "t", "a", "d", "a", "t", "a", ".", "j", "s", "o", "n">>
PROFILE_1_1 == ROCRATE_PROFILE_PREFIX \o <<"1", ".", "1">>

FOLDER_X == <<".", "/", "x", "/">>
FOLDER_RO == <<".", "/", "r", "o", "-", "c", "r", "a", "t", "e", "/">>
FOLDER_NO_SLASH == <<"x">>
FOLDER_HTTP == <<"h", "t", "t", "p", "s", ":", "/", "/", "e", "/", "x", "/">>
FOLDER_EMPTY == << >>
FOLDER_URN == <<"u", "r", "n", ":", "p", "/">>
FOLDER_Y == <<".", "/", "y", "/">>

EDesc == Obj("@id" :> Str(METADATA_DESCRIPTOR_ID) @@ "about" :> Ref(ROOT_ENTITY_ID))
ERoot(n) ==
    Obj("@id" :> Str(ROOT_ENTITY_ID) @@ "@type" :> Str(DATASET) @@ "name" :> Str(<<n>>)
        @@ "hasPart" :> Arr(<<Ref(ID_D)>>))
EFile == Obj("@id" :> Str(ID_D) @@ "@type" :> Str(<<"F">>) @@ "author" :> Ref(ID_P))
EFileAD == Obj("@id" :> Str(ID_AD) @@ "@type" :> Str(<<"F">>))
EFrag == Obj("@id" :> Str(ID_P) @@ "name" :> Str(<<"P">>))
EMetaFrag == Obj("@id" :> Str(ID_META_FRAG))
ESub(id) ==
    Obj("@id" :> Str(id) @@ "@type" :> Str(DATASET) @@ "conformsTo" :> Ref(PROFILE_1_1))
ESubAbs ==
    Obj("@id" :> Str(ID_ABS_A) @@ "@type" :> Arr(<<Str(DATASET)>>)
        @@ "conformsTo" :> Str(PROFILE_1_1))
EPerson(n) ==
    Obj("@id" :> Str(ID_URN) @@ "@type" :> Str(<<"P">>) @@ "name" :> Str(<<n>>))
ENoId == Obj("name" :> Str(<<"N">>))
ERootBare == Obj("@id" :> Str(ROOT_ENTITY_ID) @@ "@type" :> Str(DATASET))
\* a top-level root that already lists the folder "./y/" among its parts
ERootLinked ==
    Obj("@id" :> Str(ROOT_ENTITY_ID) @@ "@type" :> Str(DATASET) @@ "name" :> Str(<<"M">>)
        @@ "hasPart" :> Arr(<<Ref(FOLDER_Y), Ref(ID_D)>>))
EUrnDir == Obj("@id" :> Str(FOLDER_URN) @@ "name" :> Str(<<"D">>))
\* a shared entity that refers to the local entity "#p" of its document
ECited == Obj("@id" :> Str(URN \o <<"c">>) @@ "about" :> Ref(ID_P))

\* what the top-level graph holds besides its descriptor and root
MainExtras ==
    { <<EFile, EFrag, EPerson("A")>>,
      <<EFile, ESub(ID_A), EPerson("A")>>,
      <<ESub(ID_A), ESub(ID_B), EFrag>>,
      <<ESub(ID_A), ESubAbs, EFileAD>>,
      <<ENoId, ESubAbs>>,
      <<ESub(ID_SLASH)>> }

MainGraphs ==
    { d \o r \o x : d \in {<< >>, <<EDesc>>}, r \in {<< >>, <<ERoot("M")>>},
                    x \in MainExtras }

\* the documents the loader can serve, by name
LoaderDocs ==
    [ A |-> <<EDesc, ERoot("A"), EFile, EFrag, EPerson("B"), ESub(ID_A)>>,
      B |-> <<EFrag, EPerson("B")>> ]

MergeCrate(graph, folder_id, name) ==
    [graph |-> graph, folder_id |-> folder_id, name |-> name]

MergePool ==
    { MergeCrate(<<EDesc, ERoot("X"), EFile, EFrag, EMetaFrag>>, FOLDER_X, Some(<<"X">>)),
      MergeCrate(<<EFrag, EPerson("B")>>, ID_A, None),
      MergeCrate(<<ERoot("R"), EMetaFrag>>, FOLDER_RO, None),
      MergeCrate(<<ERoot("X")>>, FOLDER_NO_SLASH, None),
      MergeCrate(<<ERoot("R"), EUrnDir, EPerson("B")>>, FOLDER_URN, Some(<<"U">>)),
      MergeCrate(<<ERootBare, EFrag, ECited>>, FOLDER_Y, Some(<<"Y">>)) }

InvalidOnly ==
    { <<MergeCrate(<<ERoot("X")>>, f, None)>> :
        f \in {FOLDER_EMPTY, ROOT_ENTITY_ID, FOLDER_HTTP} }

OthersLists ==
    UNION {[1..n -> MergePool] : n \in 0..MaxMerges} \cup InvalidOnly

\* Single(graph) is Merge with no others
Inputs ==
    { [main |-> m, others |-> << >>, add_subcrate_type |-> t] :
        m \in MainGraphs, t \in BOOLEAN }
    \cup
    { [main |-> d \o x, others |-> o, add_subcrate_type |-> TRUE] :
        d \in {<< >>, <<EDesc>>},
        x \in { <<ERoot("M"), EFrag>>,
                <<ERootLinked, EFile, ESub(ID_A), ESubAbs, EPerson("A")>> },
        o \in OthersLists }

----------------------------------------------------------------------------
(* The run of consolidate, one step of the traversal at a time.            *)

Init ==
    /\ input \in Inputs
    /\ pc = "start"
    /\ stack = << >>
    /\ visited = {}
    /\ fragment_tracker = {}
    /\ all_local = << >>
    /\ all_shared = << >>
    /\ subcrate_folders = << >>
    /\ root_entity = None
    /\ metadata_descriptor = None
    /\ stats = [crates_consolidated |-> 0, total_entities |-> 0, merged_entities |-> 0]
    /\ merge_idx = 1
    /\ result = Running
    /\ loader_calls = << >>

\* consolidate calls collect_hierarchy(root_graph, "")
Start ==
    /\ pc = "start"
    /\ pc' = "walk"
    /\ Enter("main", "main", input.main, << >>, << >>, << >>)
    /\ UNCHANGED <<input, visited, subcrate_folders, merge_idx, result, loader_calls>>

\* a skip that asks the loader again for a namespace already claimed
SkipVisited_Loading ==
    /\ AtSubcrate
    /\ CurNamespace \in visited
    /\ loader_calls' = Append(loader_calls,
          [subcrate_id |-> CurId, parent_namespace |-> Top.namespace,
           child_namespace |-> CurNamespace, outcome |-> "fail", depth |-> Len(stack)])
    /\ stack' = Advance
    /\ UNCHANGED <<input, pc, visited, fragment_tracker, all_local, all_shared,
                   subcrate_folders, root_entity, metadata_descriptor, stats,
                   merge_idx, result>>

\* cycle detection: the namespace of the next reference is already claimed
SkipVisited ==
    /\ AtSubcrate
    /\ CurNamespace \in visited
    /\ stack' = Advance
    /\ UNCHANGED <<input, pc, visited, fragment_tracker, all_local, all_shared,
                   subcrate_folders, root_entity, metadata_descriptor, stats,
                   merge_idx, result, loader_calls>>

LoaderCall(outcome) ==
    [subcrate_id |-> CurId, parent_namespace |-> Top.namespace,
     child_namespace |-> CurNamespace, outcome |-> outcome, depth |-> Len(stack)]

\* a failed load that leaves the namespace unclaimed
LoadFail_NotClaiming ==
    /\ AtSubcrate
    /\ CurNamespace \notin visited
    /\ loader_calls' = Append(loader_calls, LoaderCall("fail"))
    /\ stack' = Advance
    /\ UNCHANGED <<input, pc, visited, fragment_tracker, all_local, all_shared,
                   subcrate_folders, root_entity, metadata_descriptor, stats,
                   merge_idx, result>>

\* the namespace is claimed, loader.load fails, the reference is skipped
LoadFail ==
    /\ AtSubcrate
    /\ CurNamespace \notin visited
    /\ visited' = visited \cup {CurNamespace}
    /\ loader_calls' = Append(loader_calls, LoaderCall("fail"))
    /\ stack' = Advance
    /\ UNCHANGED <<input, pc, fragment_tracker, all_local, all_shared,
                   subcrate_folders, root_entity, metadata_descriptor, stats,
                   merge_idx, result>>

\* the namespace is claimed, loader.load returns a document, and
\* collect_hierarchy is entered for it
LoadOk ==
    /\ AtSubcrate
    /\ CurNamespace \notin visited
    /\ Len(stack) < MaxDepth
    /\ \E d \in DOMAIN LoaderDocs :
         /\ loader_calls' = Append(loader_calls, LoaderCall(d))
         /\ Enter("sub", d, LoaderDocs[d], CurNamespace, CurId, stack)
    /\ visited' = visited \cup {CurNamespace}
    /\ UNCHANGED <<input, pc, subcrate_folders, merge_idx, result>>

Finished ==
    /\ pc = "walk"
    /\ stack # << >>
    /\ Top.next > Len(Top.subcrate_ids)

\* the recursive call for a discovered subcrate returns: the parent makes
\* the folder when the call captured a root, and moves to the next reference
ReturnSub ==
    /\ Finished
    /\ Top.kind = "sub"
    /\ LET child == Top
           parent == stack[Len(stack) - 1]
           parent_folder == FindById(parent.graph, child.subcrate_id)
           folder_id == DiscoveredFolderId(parent.namespace, child.subcrate_id,
                                           child.namespace)
           folder == create_subcrate_folder(folder_id, parent_folder, child.root_slot[1],
                         ContainedIds(all_local, child.namespace),
                         input.add_subcrate_type)
       IN  /\ subcrate_folders' = IF IsSome(child.root_slot)
                                  THEN Append(subcrate_folders, folder)
                                  ELSE subcrate_folders
           /\ stack' = [Pop EXCEPT ![Len(stack) - 1].next = @ + 1]
    /\ UNCHANGED <<input, pc, visited, fragment_tracker, all_local, all_shared,
                   root_entity, metadata_descriptor, stats, merge_idx, result,
                   loader_calls>>

\* the top-level call returns: the explicit merges follow
ReturnMain ==
    /\ Finished
    /\ Top.kind = "main"
    /\ stack' = Pop
    /\ pc' = "merge"
    /\ UNCHANGED <<input, visited, fragment_tracker, all_local, all_shared,
                   subcrate_folders, root_entity, metadata_descriptor, stats,
                   merge_idx, result, loader_calls>>

AtMerge ==
    /\ pc = "merge"
    /\ merge_idx <= Len(input.others)

CurMerge == input.others[merge_idx]
MergeNamespace == namespace_from_folder_id(CurMerge.folder_id)

Fail(e) ==
    /\ result' = Err(e)
    /\ pc' = "done"
    /\ UNCHANGED <<input, stack, visited, fragment_tracker, all_local, all_shared,
                   subcrate_folders, root_entity, metadata_descriptor, stats,
                   merge_idx, loader_calls>>

MergeInvalid ==
    /\ AtMerge
    /\ ~validate_folder_id(CurMerge.folder_id)
    /\ Fail("InvalidFolderId")

\* a duplicate explicit entry passed over silently, as a discovered one is
MergeDuplicate_Skipping ==
    /\ AtMerge
    /\ validate_folder_id(CurMerge.folder_id)
    /\ MergeNamespace \in visited
    /\ merge_idx' = merge_idx + 1
    /\ UNCHANGED <<input, pc, stack, visited, fragment_tracker, all_local, all_shared,
                   subcrate_folders, root_entity, metadata_descriptor, stats,
                   result, loader_calls>>

MergeDuplicate ==
    /\ AtMerge
    /\ validate_folder_id(CurMerge.folder_id)
    /\ MergeNamespace \in visited
    /\ Fail("DuplicateFolderId")

\* the entry is accepted: its namespace is claimed and collect_hierarchy is
\* entered for its graph
MergeBegin ==
    /\ AtMerge
    /\ validate_folder_id(CurMerge.folder_id)
    /\ MergeNamespace \notin visited
    /\ visited' = visited \cup {MergeNamespace}
    /\ Enter("merge", "merge", CurMerge.graph, MergeNamespace, CurMerge.folder_id, << >>)
    /\ pc' = "walk"
    /\ UNCHANGED <<input, subcrate_folders, merge_idx, result, loader_calls>>

\* the call for an explicit merge returns: the folder is made from the
\* merged graph's own root entity
ReturnMerge ==
    /\ Finished
    /\ Top.kind = "merge"
    /\ LET merge_root == collect_from_graph(CurMerge.graph, Top.namespace).root_entity
           folder == create_subcrate_folder(CurMerge.folder_id,
                         SyntheticParent(CurMerge.folder_id, CurMerge.name),
                         merge_root[1].entity,
                         ContainedIds(all_local, Top.namespace),
                         input.add_subcrate_type)
       IN  subcrate_folders' = IF IsSome(merge_root)
                               THEN Append(subcrate_folders, folder)
                               ELSE subcrate_folders
    /\ stack' = Pop
    /\ merge_idx' = merge_idx + 1
    /\ pc' = "merge"
    /\ UNCHANGED <<input, visited, fragment_tracker, all_local, all_shared,
                   root_entity, metadata_descriptor, stats, result, loader_calls>>

AtEnd ==
    /\ pc = "merge"
    /\ merge_idx > Len(input.others)

MergedCount == Len(all_shared) - Cardinality(GroupIds(all_shared))

FinishMissingDescriptor ==
    /\ AtEnd
    /\ metadata_descriptor = None
    /\ result' = Err("MissingMetadataDescriptor")
    /\ pc' = "done"
    /\ stats' = [stats EXCEPT !.merged_entities = MergedCount]
    /\ UNCHANGED <<input, stack, visited, fragment_tracker, all_local, all_shared,
                   subcrate_folders, root_entity, metadata_descriptor, merge_idx,
                   loader_calls>>

FinishMissingRoot ==
    /\ AtEnd
    /\ metadata_descriptor # None
    /\ root_entity = None
    /\ result' = Err("MissingRootEntity")
    /\ pc' = "done"
    /\ stats' = [stats EXCEPT !.merged_entities = MergedCount]
    /\ UNCHANGED <<input, stack, visited, fragment_tracker, all_local, all_shared,
                   subcrate_folders, root_entity, metadata_descriptor, merge_idx,
                   loader_calls>>

FinishOk ==
    /\ AtEnd
    /\ metadata_descriptor # None
    /\ root_entity # None
    /\ \E merged_shared \in merge_by_id_orders(all_shared) :
         LET final_graph == FinalGraph(metadata_descriptor[1], root_entity[1],
                                       all_local, subcrate_folders, merged_shared)
         IN  /\ result' = Ok(final_graph)
             /\ stats' = [stats EXCEPT !.merged_entities = MergedCount,
                                       !.total_entities = Len(final_graph)]
    /\ pc' = "done"
    /\ UNCHANGED <<input, stack, visited, fragment_tracker, all_local, all_shared,
                   subcrate_folders, root_entity, metadata_descriptor, merge_idx,
                   loader_calls>>

Next ==
    \/ Start
    \/ SkipVisited
    \/ LoadFail
    \/ LoadOk
    \/ ReturnSub
    \/ ReturnMain
    \/ MergeInvalid
    \/ MergeDuplicate
    \/ MergeBegin
    \/ ReturnMerge
    \/ FinishMissingDescriptor
    \/ FinishMissingRoot
    \/ FinishOk

Spec == Init /\ [][Next]_vars

----------------------------------------------------------------------------
(* Properties.                                                             *)

Succeeded == pc = "done" /\ result.status = "Ok"
Failed(e) == pc = "done" /\ result = Err(e)

HasId(e) == IsSome(extract_id(e))
IdOf(e) == extract_id(e)[1]

\* the graph holds an entity whose @id is "./"
GraphHasRoot(graph) == \E i \in 1..Len(graph) : extract_id(graph[i]) = Some(ROOT_ENTITY_ID)

\* the graph holds an entity whose @id names the metadata descriptor
GraphHasDescriptor(graph) ==
    \E i \in 1..Len(graph) :
        HasId(graph[i]) /\ EndsWith(IdOf(graph[i]), METADATA_DESCRIPTOR_ID)

\* the positions of the final graph whose @id is id
Holders(id) == {i \in 1..Len(result.graph) : extract_id(result.graph[i]) = Some(id)}

\* the loader calls that failed / that returned a document
FailedCalls == {i \in 1..Len(loader_calls) : loader_calls[i].outcome = "fail"}
ServedCalls == {i \in 1..Len(loader_calls) : loader_calls[i].outcome \in DOMAIN LoaderDocs}

\* a folder id the four rules of the folder-id validation reject
InvalidByRule(f) ==
    \/ f = << >>
    \/ f = <<".", "/">>
    \/ Len(f) > 0 /\ f[Len(f)] # "/"
    \/ StartsWith(f, HTTP)
    \/ StartsWith(f, HTTPS)

HasInvalidEntry == \E i \in 1..Len(input.others) : InvalidByRule(input.others[i].folder_id)

\* C1: after a successful run no two entities of the final graph carry the
\* same @id.
C1_UniqueIds ==
    Succeeded =>
        \A i, j \in 1..Len(result.graph) :
            (i # j /\ HasId(result.graph[i]))
                => extract_id(result.graph[i]) # extract_id(result.graph[j])

\* the folder id a discovered subcrate is to get
ExpectedFolderId(call) ==
    IF call.parent_namespace = << >> THEN call.subcrate_id
    ELSE <<".", "/">> \o call.child_namespace \o <<"/">>

\* C2: every discovered subcrate reference whose load succeeded and whose
\* graph holds a root entity has a synthesized folder in the final graph,
\* with the expected @id and with "Dataset" (and "Subcrate" when
\* add_subcrate_type is set) among its types.
C2_FolderPerLoadedSubcrate ==
    Succeeded =>
        \A c \in ServedCalls :
            GraphHasRoot(LoaderDocs[loader_calls[c].outcome]) =>
                \E k \in 1..Len(subcrate_folders) :
                    /\ extract_id(subcrate_folders[k])
                           = Some(ExpectedFolderId(loader_calls[c]))
                    /\ has_type(subcrate_folders[k], DATASET)
                    /\ input.add_subcrate_type
                           => has_type(subcrate_folders[k], SUBCRATE_TYPE_SHORT)
                    /\ InSeq(result.graph, subcrate_folders[k])

\* C3: a subcrate reference leading back to a crate already entered on the
\* current path is not loaded and descended into again: no two active calls
\* of the walk are for the same subcrate id served with the same document.
C3_NoReentryOnPath ==
    \A i, j \in 1..Len(stack) :
        (i < j /\ stack[i].kind = "sub" /\ stack[j].kind = "sub")
            => ~(/\ stack[i].subcrate_id = stack[j].subcrate_id
                 /\ stack[i].doc = stack[j].doc)

\* C4: a successful run's final graph holds exactly one entity with @id "./"
\* and exactly one metadata-descriptor entity, both those of the top-level
\* document (the root up to its extended hasPart).
C4_OneRootOneDescriptor ==
    Succeeded =>
        LET g == result.graph
            roots == {i \in 1..Len(g) : IsRootEntity(g[i])}
            descs == {i \in 1..Len(g) : IsDescriptorEntity(g[i])}
            main_root == LastWhere(input.main, IsRootEntity)[1]
            main_desc == LastWhere(input.main, IsDescriptorEntity)[1]
        IN  /\ Cardinality(roots) = 1
            /\ Cardinality(descs) = 1
            /\ \A i \in descs : g[i] = main_desc
            /\ \A i \in roots :
                 \A key \in (DOMAIN main_root.v) \ {"hasPart"} :
                     key \in DOMAIN g[i].v /\ g[i].v[key] = main_root.v[key]

\* the step is a failed load of a discovered subcrate
LoadFailStep ==
    /\ Len(loader_calls') = Len(loader_calls) + 1
    /\ loader_calls'[Len(loader_calls')].outcome = "fail"

\* what a failed load leaves behind: the run goes on, nothing is accumulated
\* and no folder is made, and the walk stands at the parent's next reference
SkippedOnly ==
    /\ result' = Running
    /\ pc' = "walk"
    /\ subcrate_folders' = subcrate_folders
    /\ all_local' = all_local
    /\ all_shared' = all_shared
    /\ Len(stack') = Len(stack)
    /\ stack'[Len(stack)].next = stack[Len(stack)].next + 1
    /\ stack'[Len(stack)].subcrate_ids = stack[Len(stack)].subcrate_ids

\* the reference entity of a failed call is among the accumulated local
\* entities of its parent and in the final graph
KeptAsLocal(call) ==
    \E k \in 1..Len(all_local) :
        /\ all_local[k].original_id = call.subcrate_id
        /\ all_local[k].namespace = call.parent_namespace
        /\ InSeq(result.graph, all_local[k].entity)

\* the reference entity of a failed call is among the accumulated shared
\* entities of its parent and the final graph holds an entity with its id
KeptAsShared(call) ==
    /\ \E k \in 1..Len(all_shared) :
        /\ all_shared[k].original_id = call.subcrate_id
        /\ all_shared[k].namespace = call.parent_namespace
    /\ Holders(call.subcrate_id) # {}

NoFolderFor(call) ==
    \A k \in 1..Len(subcrate_folders) :
        extract_id(subcrate_folders[k]) # Some(ExpectedFolderId(call))

\* C5 as stated: after a failed load the reference entity stays in the
\* final graph as a local entity of the parent, and no folder is made for it.
C5_KeptAsLocalEntity ==
    Succeeded =>
        \A c \in FailedCalls : KeptAsLocal(loader_calls[c]) /\ NoFolderFor(loader_calls[c])

\* C5 amended: a failed load never fails the run, makes no folder and leaves
\* the parent's remaining references to be processed; the reference entity
\* stays in the final graph as an ordinary entity of the parent: a local
\* entity when its id is relative or a fragment, a shared entity when its
\* id is absolute.
C5_FailedLoadIsSkipped ==
    /\ [][LoadFailStep => SkippedOnly]_vars
    /\ [](Succeeded =>
            \A c \in FailedCalls :
                /\ NoFolderFor(loader_calls[c])
                /\ IF classify_id(loader_calls[c].subcrate_id) = "Absolute"
                   THEN KeptAsShared(loader_calls[c])
                   ELSE KeptAsLocal(loader_calls[c]))

\* a successful run in which the load of an absolute-id reference failed
C5_Witness ==
    /\ Succeeded
    /\ \E c \in FailedCalls : classify_id(loader_calls[c].subcrate_id) = "Absolute"

\* C6: when an explicit merge entry has an invalid folder id, the run is
\* rejected before anything is loaded: the loader is never invoked and no
\* explicit merge document is processed.
C6_RejectedBeforeLoading ==
    HasInvalidEntry =>
        /\ loader_calls = << >>
        /\ merge_idx = 1
        /\ \A i \in 1..Len(stack) : stack[i].kind # "merge"

\* C7: the run returns InvalidFolderId whenever an explicit merge entry's
\* folder id is empty, "./", lacks the trailing "/" or starts with http:// or
\* https://; every other folder id passes validation.
C7_InvalidAlwaysRejected ==
    /\ (pc = "done" /\ HasInvalidEntry) => result = Err("InvalidFolderId")
    /\ \A i \in 1..Len(input.others) :
         validate_folder_id(input.others[i].folder_id)
             <=> ~InvalidByRule(input.others[i].folder_id)

\* an explicit entry has been reached, has passed validation, and the
\* namespace derived from its folder id is already claimed
AtClaimedEntry ==
    /\ pc = "merge"
    /\ merge_idx <= Len(input.others)
    /\ ~InvalidByRule(input.others[merge_idx].folder_id)
    /\ namespace_from_folder_id(input.others[merge_idx].folder_id) \in visited

\* a discovered reference has been reached whose namespace is already claimed
AtClaimedReference ==
    /\ pc = "walk"
    /\ stack # << >>
    /\ stack[Len(stack)].next <= Len(stack[Len(stack)].subcrate_ids)
    /\ CurNamespace \in visited

MainLacksRootOrDescriptor ==
    ~GraphHasRoot(input.main) \/ ~GraphHasDescriptor(input.main)

MissingErrors == {"MissingRootEntity", "MissingMetadataDescriptor"}

\* C9 as stated: the run fails with MissingRootEntity or
\* MissingMetadataDescriptor whenever the top-level graph lacks the root or
\* the descriptor, and never fails this way when it holds both.
C9_MissingAlwaysReported ==
    pc = "done" =>
        IF MainLacksRootOrDescriptor
        THEN result.status = "Err" /\ result.error \in MissingErrors
        ELSE result.error \notin MissingErrors

\* C9 amended: when the top-level graph lacks the root or the descriptor the
\* run fails and emits no document, whatever the subcrates and the merged
\* documents hold: with MissingMetadataDescriptor or MissingRootEntity when
\* every explicit merge entry was accepted, and otherwise with the
\* InvalidFolderId or DuplicateFolderId of the entry that was rejected
\* first; it never fails with a Missing error when the top-level graph
\* holds both.
C9_MissingTopLevelIsFatal ==
    pc = "done" =>
        IF MainLacksRootOrDescriptor
        THEN /\ result.status = "Err"
             /\ result.graph = << >>
             /\ IF merge_idx > Len(input.others)
                THEN result.error \in MissingErrors
                ELSE result.error \in {"InvalidFolderId", "DuplicateFolderId"}
        ELSE result.error \notin MissingErrors

\* the top-level graph lacks the descriptor, a loaded subcrate holds one,
\* and the run fails with MissingMetadataDescriptor
C9_Witness ==
    /\ Failed("MissingMetadataDescriptor")
    /\ ~GraphHasDescriptor(input.main)
    /\ \E c \in ServedCalls : GraphHasDescriptor(LoaderDocs[loader_calls[c].outcome])

\* an entity's namespace lies strictly beneath another's
Beneath(child_ns, ns) ==
    IF ns = << >> THEN child_ns # << >> ELSE StartsWith(child_ns, ns \o <<"/">>)

\* C10: the final graph is the descriptor, the root, the local entities in
\* accumulation order (those of the top-level document first, in its own
\* entity order, and never a subcrate's before those of the document it was
\* loaded from), the folders in production order, and then the merged
\* shared entities.
C10_FinalGraphOrder ==
    Succeeded =>
        LET g == result.graph
            nl == Len(all_local)
            nf == Len(subcrate_folders)
            main_local == SelectSeq(input.main, IsLocalEntity)
        IN  /\ Len(g) >= 2 + nl + nf
            /\ IsDescriptorEntity(g[1])
            /\ IsRootEntity(g[2])
            /\ \A k \in 1..nl : g[2 + k] = all_local[k].entity
            /\ \A k \in 1..Len(main_local) : g[2 + k] = main_local[k]
            /\ \A i, j \in 1..nl :
                 i < j => ~Beneath(all_local[i].namespace, all_local[j].namespace)
            /\ \A k \in 1..nf : g[2 + nl + k] = subcrate_folders[k]
            /\ \A k \in (2 + nl + nf + 1)..Len(g) : IsSharedEntity(g[k])
            /\ {IdOf(g[k]) : k \in (2 + nl + nf + 1)..Len(g)} = GroupIds(all_shared)

\* a successful run whose graph holds local entities of the top-level
\* document and of a loaded subcrate, a folder, and merged shared entities
C10_Witness ==
    /\ Succeeded
    /\ ServedCalls # {}
    /\ Len(all_local) >= 2
    /\ Len(subcrate_folders) >= 1
    /\ Len(all_shared) >= 2

----------------------------------------------------------------------------
(* The library functions called on their own: rewrite_id (id.rs),          *)
(* union_merge_values and merge_by_id (merge.rs).  input holds the         *)
(* arguments of one call and result what the call returned.                *)

\* the largest group of same-id entities handed to merge_by_id
MaxGroup == 3

ID_BARE == <<"d">>
ID_NESTED_DESC == <<".", "/", "a", "/">> \o METADATA_DESCRIPTOR_ID
NS_A == <<"a">>
NS_AB == <<"a", "/", "b">>

RewriteIdArgs ==
    [ fn : {"rewrite_id"},
      id : {ROOT_ENTITY_ID, ID_D, ID_BARE, ID_A, ID_SLASH, ID_P, ID_META_FRAG, ID_URN,
            ID_ABS_A, METADATA_DESCRIPTOR_ID, ID_NESTED_DESC},
      namespace : {<< >>, NS_A, NS_AB},
      used_fragments : {{}, {ID_P}, {ID_P, ID_META_FRAG}} ]

VA == Str(<<"A">>)
VB == Str(<<"B">>)

MergeValues ==
    { VA, VB, Ref(ID_D), Ref(ID_P), Obj("n" :> VA), Obj("n" :> VB),
      Obj("@id" :> Str(ID_D) @@ "n" :> VA),
      Arr(<< >>), Arr(<<VA>>), Arr(<<VA, VB>>), Arr(<<VB, VA, VB>>),
      Arr(<<Ref(ID_D)>>), Arr(<<Ref(ID_P), VA, Ref(ID_D)>>), Arr(<<Obj("n" :> VA), Ref(ID_P)>>) }

MergeValueArgs == [fn : {"union_merge_values"}, a : MergeValues, b : MergeValues]

\* entities that share the identifier "urn:p"
Shared(props) == Obj(("@id" :> Str(ID_URN)) @@ props)

SharedPool ==
    { Shared("k" :> VA), Shared("k" :> VB @@ "@type" :> Str(<<"P">>)),
      Shared("k" :> Arr(<<VB, VA>>) @@ "j" :> VA),
      Shared("@type" :> Arr(<<Str(<<"Q">>), Str(<<"P">>)>>)),
      Shared("k" :> Obj("n" :> VA)), Shared("k" :> Obj("n" :> VB)) }

MergeByIdArgs ==
    [ fn : {"merge_by_id"},
      entities : UNION {[1..n -> SharedPool] : n \in 3..MaxGroup} ]

\* a subcrate document that holds "./d" and also "./a/d", the id "./d"
\* takes under the namespace "a"
DocNested == <<ERoot("A"), EFile, EFileAD, EFrag, EPerson("A")>>

\* a document with every shape of type and conformsTo collect looks at
DocConformance ==
    << EDesc,
       Obj("@id" :> Str(ROOT_ENTITY_ID) @@ "@type" :> Str(DATASET)
           @@ "conformsTo" :> Ref(PROFILE_1_1)),
       ESub(ID_A), ESubAbs,
       Obj("@id" :> Str(ID_B) @@ "@type" :> Arr(<<Str(<<"F">>), Str(DATASET)>>)
           @@ "conformsTo" :> Arr(<<Ref(ID_ABS_A), Ref(PROFILE_1_1)>>)),
       Obj("@id" :> Str(ID_D) @@ "@type" :> Str(<<"F">>) @@ "conformsTo" :> Ref(PROFILE_1_1)),
       Obj("@id" :> Str(ID_AD) @@ "@type" :> Str(DATASET) @@ "conformsTo" :> Ref(ID_ABS_A)),
       Obj("@id" :> Str(ID_P) @@ "@type" :> Str(DATASET) @@ "conformsTo" :> Str(ROCRATE_BARE)),
       Obj("@id" :> Str(ID_URN) @@ "@type" :> Str(DATASET)
           @@ "conformsTo" :> Ref(ROCRATE_HASH \o <<"x">>)),
       Obj("@id" :> Str(ID_BARE) @@ "@type" :> Str(DATASET)),
       ENoId, ERoot("B") >>

CollectArgs ==
    [ fn : {"collect_from_graph", "collect_hierarchy"},
      graph : {DocNested, DocConformance, LoaderDocs.A, LoaderDocs.B},
      namespace : {<< >>, NS_A, NS_AB},
      used_fragments : {{}, {ID_P}} ]

\* the parent references and subcrate roots a folder is composed from
FolderSources ==
    { Obj("@id" :> Str(ID_A) @@ "@type" :> Str(DATASET) @@ "name" :> VA),
      Obj("@id" :> Str(ID_A) @@ "@type" :> Arr(<<Str(<<"F">>), Str(DATASET), Str(<<"G">>)>>)),
      Obj("@id" :> Str(ID_A) @@ "@type" :> Arr(<<Str(<<"G">>), Str(SUBCRATE_TYPE_SHORT), Str(<<"G">>)>>)),
      Obj("@id" :> Str(ID_A) @@ "name" :> VB) }

CreateFolderArgs ==
    [ fn : {"create_subcrate_folder"},
      folder_id : {ID_A},
      parent_folder : {None} \cup {Some(x) : x \in FolderSources},
      subcrate_root : FolderSources,
      consolidated_entity_ids : {<< >>, <<ID_AD>>},
      add_subcrate_type : BOOLEAN ]

Returned(v) == [status |-> "returned", value |-> v]

InitCall ==
    /\ input \in RewriteIdArgs \cup MergeValueArgs \cup MergeByIdArgs
                 \cup CollectArgs \cup CreateFolderArgs
    /\ pc = "call"
    /\ stack = << >>
    /\ visited = {}
    /\ fragment_tracker = {}
    /\ all_local = << >>
    /\ all_shared = << >>
    /\ subcrate_folders = << >>
    /\ root_entity = None
    /\ metadata_descriptor = None
    /\ stats = [crates_consolidated |-> 0, total_entities |-> 0, merged_entities |-> 0]
    /\ merge_idx = 1
    /\ result = Running
    /\ loader_calls = << >>

CallRewriteId ==
    /\ pc = "call"
    /\ input.fn = "rewrite_id"
    /\ result' = Returned(rewrite_id(input.id, input.namespace, input.used_fragments))
    /\ pc' = "returned"
    /\ UNCHANGED <<input, stack, visited, fragment_tracker, all_local, all_shared,
                   subcrate_folders, root_entity, metadata_descriptor, stats,
                   merge_idx, loader_calls>>

CallMergeValue ==
    /\ pc = "call"
    /\ input.fn = "union_merge_values"
    /\ result' = Returned(union_merge_values(input.a, input.b))
    /\ pc' = "returned"
    /\ UNCHANGED <<input, stack, visited, fragment_tracker, all_local, all_shared,
                   subcrate_folders, root_entity, metadata_descriptor, stats,
                   merge_idx, loader_calls>>

\* merge_by_id over entities collected in the order given
CallMergeById ==
    /\ pc = "call"
    /\ input.fn = "merge_by_id"
    /\ \E merged \in merge_by_id_orders(
                        [i \in 1..Len(input.entities) |->
                            CollectedEntity(input.entities[i], << >>)]) :
           result' = Returned(merged)
    /\ pc' = "returned"
    /\ UNCHANGED <<input, stack, visited, fragment_tracker, all_local, all_shared,
                   subcrate_folders, root_entity, metadata_descriptor, stats,
                   merge_idx, loader_calls>>

CallCollectFromGraph ==
    /\ pc = "call"
    /\ input.fn = "collect_from_graph"
    /\ result' = Returned(collect_from_graph(input.graph, input.namespace))
    /\ pc' = "returned"
    /\ UNCHANGED <<input, stack, visited, fragment_tracker, all_local, all_shared,
                   subcrate_folders, root_entity, metadata_descriptor, stats,
                   merge_idx, loader_calls>>

\* collect_hierarchy up to its loop over the discovered subcrates
CallCollectHierarchy ==
    /\ pc = "call"
    /\ input.fn = "collect_hierarchy"
    /\ result' = Returned(CollectCrate(input.graph, input.namespace, input.used_fragments))
    /\ pc' = "returned"
    /\ UNCHANGED <<input, stack, visited, fragment_tracker, all_local, all_shared,
                   subcrate_folders, root_entity, metadata_descriptor, stats,
                   merge_idx, loader_calls>>

CallCreateFolder ==
    /\ pc = "call"
    /\ input.fn = "create_subcrate_folder"
    /\ result' = Returned(create_subcrate_folder(input.folder_id, input.parent_folder,
                               input.subcrate_root, input.consolidated_entity_ids,
                               input.add_subcrate_type))
    /\ pc' = "returned"
    /\ UNCHANGED <<input, stack, visited, fragment_tracker, all_local, all_shared,
                   subcrate_folders, root_entity, metadata_descriptor, stats,
                   merge_idx, loader_calls>>

NextCall ==
    \/ CallRewriteId
    \/ CallMergeValue
    \/ CallMergeById
    \/ CallCollectFromGraph
    \/ CallCollectHierarchy
    \/ CallCreateFolder

SpecCall == InitCall /\ [][NextCall]_vars

----------------------------------------------------------------------------
(* C11: shared entities are merged by identifier.                          *)

\* the shared entities collected with identifier id, in arrival order
SharedGroup(id) ==
    LET grp == SelectSeq(all_shared, LAMBDA c : c.original_id = id)
    IN  [i \in 1..Len(grp) |-> grp[i].entity]

\* the left fold of merge_entity over a non-empty list, first element first
RECURSIVE LeftFold(_, _)
LeftFold(vals, n) ==
    IF n = 1 THEN vals[1]
    ELSE union_merge_entities(LeftFold(vals, n - 1), vals[n])

\* C11: on success every Absolute identifier carried by k >= 1 collected
\* entities is held by exactly one entity of the final graph; that entity is
\* the collected one when k = 1 and the left fold of merge_entity over the
\* k entities in arrival order when k > 1; merged_entities is the number of
\* shared occurrences minus the number of distinct shared identifiers.
C11_SharedMergedOnce ==
    Succeeded =>
        /\ \A id \in GroupIds(all_shared) :
             /\ Cardinality(Holders(id)) = 1
             /\ \A h \in Holders(id) :
                  result.graph[h] = LeftFold(SharedGroup(id), Len(SharedGroup(id)))
        /\ stats.merged_entities
             = Len(all_shared) - Cardinality(GroupIds(all_shared))

\* the merged entity itself is always present and is the fold: only the
\* uniqueness of its identifier can fail
C11_FoldPresent ==
    Succeeded =>
        \A id \in GroupIds(all_shared) :
            \E h \in Holders(id) :
                result.graph[h] = LeftFold(SharedGroup(id), Len(SharedGroup(id)))

----------------------------------------------------------------------------
(* C12: the root's hasPart is extended, never replaced.                    *)

\* the entries of an entity's hasPart: none when absent, the value itself
\* when it is not a list
HasPartEntries(e) ==
    IF ~HasKey(e, "hasPart") THEN << >>
    ELSE IF IsArr(e.v["hasPart"]) THEN e.v["hasPart"].v
    ELSE <<e.v["hasPart"]>>

\* the identifiers under which a folder sits directly under the top-level
\* document: its own subcrate references and the explicit merge targets
TopLevelFolderIds ==
    {input.others[i].folder_id : i \in 1..Len(input.others)}
    \cup {id \in {IdOf(input.main[i]) : i \in {j \in 1..Len(input.main) : HasId(input.main[j])}} :
            \E i \in 1..Len(input.main) :
                extract_id(input.main[i]) = Some(id) /\ is_subcrate_ref(input.main[i])}

\* the references to the folders produced directly under the top-level
\* document, in the order the folders were produced
TopLevelFolderRefs ==
    LET top == SelectSeq(subcrate_folders,
                         LAMBDA f : HasId(f) /\ IdOf(f) \in TopLevelFolderIds)
    IN  [i \in 1..Len(top) |-> Ref(IdOf(top[i]))]

\* the references of refs that are neither among the original entries nor
\* repeated from an earlier position of refs
NovelRefs(orig, refs) ==
    LET keep == {i \in 1..Len(refs) :
                    /\ \A j \in 1..Len(orig) : orig[j] # refs[i]
                    /\ \A j \in 1..(i - 1) : refs[j] # refs[i]}
        RECURSIVE pick(_)
        pick(i) == IF i > Len(refs) THEN << >>
                   ELSE (IF i \in keep THEN <<refs[i]>> ELSE << >>) \o pick(i + 1)
    IN  pick(1)

\* C12: on success the root's hasPart is its original entries in their
\* original order, followed by one reference per folder produced directly
\* under the top-level document that is not already referenced; no original
\* entry is removed or replaced, and no other reference is added.
C12_HasPartExtended ==
    Succeeded =>
        LET orig == HasPartEntries(root_entity[1])
            now == HasPartEntries(result.graph[2])
        IN  /\ now = orig \o NovelRefs(orig, TopLevelFolderRefs)
            /\ \A key \in (DOMAIN root_entity[1].v) \ {"hasPart"} :
                   /\ key \in DOMAIN result.graph[2].v
                   /\ result.graph[2].v[key] = root_entity[1].v[key]

\* a successful run in which one produced folder was already referenced by
\* the root and another one was appended after the original entries
C12_Witness ==
    /\ Succeeded
    /\ \E i \in 1..Len(TopLevelFolderRefs) :
         \E j \in 1..Len(HasPartEntries(root_entity[1])) :
            HasPartEntries(root_entity[1])[j] = TopLevelFolderRefs[i]
    /\ Len(HasPartEntries(result.graph[2])) > Len(HasPartEntries(root_entity[1]))
    /\ Len(subcrate_folders) = 2

----------------------------------------------------------------------------
(* C13: the folder of an explicit merge with a display name.               *)

\* the explicit merge entries that carry a display name and whose graph has
\* a root entity
NamedRootedEntries ==
    {i \in 1..Len(input.others) :
        /\ IsSome(input.others[i].name)
        /\ GraphHasRoot(input.others[i].graph)}

\* the folders produced with identifier id
FoldersWithId(id) ==
    {k \in 1..Len(subcrate_folders) : extract_id(subcrate_folders[k]) = Some(id)}

\* the name the claim expects on the folder of entry i
ExpectedFolderName(i) ==
    LET display == Str(input.others[i].name[1])
        merged_root == FindById(input.others[i].graph, ROOT_ENTITY_ID)[1]
    IN  IF ~HasKey(merged_root, "name") THEN display
        ELSE IF merged_root.v["name"] = display THEN display
        ELSE Arr(<<display, merged_root.v["name"]>>)

\* C13: on success, for every explicit merge entry with a display name and
\* a graph that has a root entity, exactly one folder with the entry's
\* folder id was produced, the root's hasPart references it, and its name
\* is the display name when the merged root has no name or the same name,
\* and the list [display name, root name] when the two differ.
C13_NamedMergeFolder ==
    Succeeded =>
        \A i \in NamedRootedEntries :
            LET id == input.others[i].folder_id IN
            /\ Cardinality(FoldersWithId(id)) = 1
            /\ \E j \in 1..Len(HasPartEntries(result.graph[2])) :
                   HasPartEntries(result.graph[2])[j] = Ref(id)
            /\ \A k \in FoldersWithId(id) :
                   /\ HasKey(subcrate_folders[k], "name")
                   /\ subcrate_folders[k].v["name"] = ExpectedFolderName(i)
                   /\ \E g \in 1..Len(result.graph) :
                          result.graph[g] = subcrate_folders[k]

\* a successful run that merged an entry whose display name differs from
\* its root's name and an entry whose root has no name
C13_Witness ==
    /\ Succeeded
    /\ \E i \in NamedRootedEntries : IsArr(ExpectedFolderName(i))
    /\ \E i \in NamedRootedEntries :
         ~HasKey(FindById(input.others[i].graph, ROOT_ENTITY_ID)[1], "name")

----------------------------------------------------------------------------
(* C14: one fragment in two subcrate documents.                            *)

\* the positions of all_local filled by subcrate documents (discovered or
\* explicitly merged): those after the top-level document's local entities
SubcrateLocals ==
    {k \in 1..Len(all_local) :
        k > Len(collect_from_graph(input.main, << >>).local_entities)}

\* positions i < j of local entities of two different subcrate documents
\* that carry the same fragment identifier in their documents
SameFragmentPairs ==
    {p \in SubcrateLocals \X SubcrateLocals :
        /\ p[1] < p[2]
        /\ all_local[p[1]].original_id = all_local[p[2]].original_id
        /\ classify_id(all_local[p[1]].original_id) = "Fragment"
        /\ all_local[p[1]].namespace # all_local[p[2]].namespace}

InFinalGraph(e) == \E g \in 1..Len(result.graph) : result.graph[g] = e

\* C14: on success, when two different subcrate documents hold a local
\* entity with the same fragment identifier F, both entities are in the final
\* graph under distinct ids: the one of the document processed first keeps F
\* and the other one is "#{namespace}-{name}" with its own namespace.
C14_FragmentCollisionRenamed ==
    Succeeded =>
        \A p \in SameFragmentPairs :
            LET first == all_local[p[1]]
                other == all_local[p[2]]
                F == first.original_id
            IN  /\ InFinalGraph(first.entity) /\ InFinalGraph(other.entity)
                /\ extract_id(first.entity) # extract_id(other.entity)
                /\ (\A k \in SubcrateLocals : k < p[1] => all_local[k].original_id # F)
                       => extract_id(first.entity) = Some(F)
                /\ extract_id(other.entity)
                       = Some(<<"#">> \o other.namespace \o <<"-">> \o Tail(F))

\* the same, for two subcrate documents that both have a namespace of their
\* own (neither was consolidated under the empty namespace)
C14_RenamedWhenNamespaced ==
    Succeeded =>
        \A p \in SameFragmentPairs :
            LET first == all_local[p[1]]
                other == all_local[p[2]]
                F == first.original_id
            IN  (first.namespace # << >> /\ other.namespace # << >>) =>
                /\ InFinalGraph(first.entity) /\ InFinalGraph(other.entity)
                /\ extract_id(first.entity) # extract_id(other.entity)
                /\ (\A k \in SubcrateLocals : k < p[1] => all_local[k].original_id # F)
                       => extract_id(first.entity) = Some(F)
                /\ extract_id(other.entity)
                       = Some(<<"#">> \o other.namespace \o <<"-">> \o Tail(F))

----------------------------------------------------------------------------
(* C15: rewrite_id on Root, Relative, Absolute and descriptor ids.         *)

RewriteReturned == pc = "returned" /\ input.fn = "rewrite_id"

\* an id without a leading "./"
WithoutDotSlash(id) ==
    IF Len(id) >= 2 /\ id[1] = "." /\ id[2] = "/" THEN SubSeq(id, 3, Len(id)) ELSE id

\* C15: under a non-empty namespace N the Root id becomes "./N/" and a
\* Relative id becomes "./N/" followed by the id without a leading "./",
\* both reported as changed; under the empty namespace every id is returned
\* unchanged, reported as not changed, and the fragment registry is left as
\* it was; Absolute and metadata-descriptor ids are returned unchanged under
\* every namespace.
C15_RewriteByKind ==
    RewriteReturned =>
        LET id == input.id
            N == input.namespace
            kind == classify_id(id)
            r == result.value
        IN  /\ (N # << >> /\ kind = "Root")
                  => r.id = <<".", "/">> \o N \o <<"/">> /\ r.changed
            /\ (N # << >> /\ kind = "Relative")
                  => r.id = <<".", "/">> \o N \o <<"/">> \o WithoutDotSlash(id)
                     /\ r.changed
            /\ N = << >>
                  => r.id = id /\ ~r.changed /\ r.used = input.used_fragments
            /\ kind \in {"Absolute", "MetadataDescriptor"}
                  => r.id = id /\ ~r.changed

\* a Relative id with a leading "./" was rewritten under a nested namespace
C15_Witness ==
    /\ RewriteReturned
    /\ input.namespace = NS_AB
    /\ input.id = ID_D
    /\ result.value.changed

----------------------------------------------------------------------------
(* C16: two references to different entities.                              *)

MergeReturned == pc = "returned" /\ input.fn = "union_merge_values"

\* a mapping whose only key is "@id"
IsSingleRef(v) == IsObj(v) /\ DOMAIN v.v = {"@id"}

\* C16: merge_value of two single-identifier reference objects with
\* different identifiers is the two-element list [a, b] of the two
\* references; the pair is not merged key by key.
C16_DistinctRefsListed ==
    (/\ MergeReturned
     /\ IsSingleRef(input.a) /\ IsSingleRef(input.b)
     /\ input.a.v["@id"] # input.b.v["@id"])
        => result.value = Arr(<<input.a, input.b>>)

----------------------------------------------------------------------------
(* C17: the fold of merge_entity under permutations of the group.          *)

MergeByIdReturned == pc = "returned" /\ input.fn = "merge_by_id"

\* the elements of a value: the members of a list, the value itself otherwise
Elements(v) == IF IsArr(v) THEN {v.v[i] : i \in 1..Len(v.v)} ELSE {v}

OrdersOf(n) == {f \in [1..n -> 1..n] : \A i, j \in 1..n : i # j => f[i] # f[j]}

\* two merged entities with the same keys and, per key, the same elements
SameKeysAndElements(x, y) ==
    /\ DOMAIN x.v = DOMAIN y.v
    /\ \A key \in DOMAIN x.v : Elements(x.v[key]) = Elements(y.v[key])

\* C17: the fold of merge_entity over a group of three or more entities with
\* the same identifier has, for every permutation of the group, the same set
\* of property keys and for every key the same set of elements as the fold
\* in the order given.
C17_FoldOrderInsensitive ==
    MergeByIdReturned =>
        LET group == input.entities
            n == Len(group)
        IN  \A f \in OrdersOf(n) :
                SameKeysAndElements(result.value[1],
                                    LeftFold([i \in 1..n |-> group[f[i]]], n))

\* the key sets alone never depend on the order of the fold
C17_FoldKeysOrderInsensitive ==
    MergeByIdReturned =>
        LET group == input.entities
            n == Len(group)
        IN  \A f \in OrdersOf(n) :
                DOMAIN result.value[1].v
                    = DOMAIN LeftFold([i \in 1..n |-> group[f[i]]], n).v

----------------------------------------------------------------------------
(* C18: merge_value is symmetric on membership, and idempotent.            *)

\* the list-union case: two lists, or one list and one non-list
ListUnionCase(a, b) == IsArr(a) \/ IsArr(b)

\* the scalar-fallback case: two different scalars
ScalarFallbackCase(a, b) == IsStr(a) /\ IsStr(b) /\ a # b

\* C18: when a and b fall in the list-union case or in the scalar-fallback
\* case, merge_value(a, b) and merge_value(b, a) have the same set of
\* elements; and merge_value(a, a) = a for every value a.
C18_SymmetricMembership ==
    MergeReturned =>
        /\ (ListUnionCase(input.a, input.b) \/ ScalarFallbackCase(input.a, input.b))
              => Elements(result.value)
                     = Elements(union_merge_values(input.b, input.a))
        /\ input.a = input.b => result.value = input.a

\* the elements of merge_value(a, b) in the two cases, said without the
\* function: the members of both arguments, a non-list being its own member
C18_MembershipIsUnion ==
    (/\ MergeReturned
     /\ ListUnionCase(input.a, input.b) \/ ScalarFallbackCase(input.a, input.b))
        => Elements(result.value) = Elements(input.a) \cup Elements(input.b)

\* two different lists were merged, each holding an element the other lacks
C18_Witness ==
    /\ MergeReturned
    /\ IsArr(input.a) /\ IsArr(input.b)
    /\ Elements(input.a) \ Elements(input.b) # {}
    /\ Elements(input.b) \ Elements(input.a) # {}
    /\ result.value # union_merge_values(input.b, input.a)

----------------------------------------------------------------------------
(* C19: the union of two lists.                                            *)

\* semantic equality: the same value, or two reference objects with the
\* same "@id"
SemanticallyEqual(x, y) ==
    \/ x = y
    \/ IsSingleRef(x) /\ IsSingleRef(y) /\ x.v["@id"] = y.v["@id"]

\* the elements of b, in order, that equal neither an element of a nor an
\* earlier element of b
NovelMembers(a, b) ==
    LET keep == {i \in 1..Len(b) :
                    /\ \A j \in 1..Len(a) : ~SemanticallyEqual(a[j], b[i])
                    /\ \A j \in 1..(i - 1) : ~SemanticallyEqual(b[j], b[i])}
        RECURSIVE pick(_)
        pick(i) == IF i > Len(b) THEN << >>
                   ELSE (IF i \in keep THEN <<b[i]>> ELSE << >>) \o pick(i + 1)
    IN  pick(1)

\* C19: for two lists a and b, merge_value(a, b) is all elements of a in
\* order, followed by exactly those elements of b, in order, that are not
\* semantically equal to an element already in the result; reference
\* objects with the same "@id" are equal and not duplicated.
C19_ListUnionOrder ==
    (MergeReturned /\ IsArr(input.a) /\ IsArr(input.b))
        => result.value = Arr(input.a.v \o NovelMembers(input.a.v, input.b.v))

\* two lists were merged where b repeats a reference of a and brings a
\* new element
C19_Witness ==
    /\ MergeReturned
    /\ IsArr(input.a) /\ IsArr(input.b)
    /\ \E i \in 1..Len(input.b.v) :
         IsSingleRef(input.b.v[i]) /\ input.b.v[i] \in Elements(input.a)
    /\ Len(result.value.v) > Len(input.a.v)

----------------------------------------------------------------------------
(* C20: the loader is called once per claimed namespace.                   *)

\* the step calls loader.load
LoaderStep == Len(loader_calls') > Len(loader_calls)

\* the call is made for the parent's current reference, with the parent's
\* namespace, and its child namespace is claimed by the step
CallAfterClaim ==
    LET call == loader_calls'[Len(loader_calls')] IN
    /\ Len(loader_calls') = Len(loader_calls) + 1
    /\ call.subcrate_id = Top.subcrate_ids[Top.next]
    /\ call.parent_namespace = Top.namespace
    /\ call.child_namespace
         = (IF Top.namespace = << >> THEN << >> ELSE Top.namespace \o <<"/">>)
           \o namespace_from_folder_id(call.subcrate_id)
    /\ call.child_namespace \notin visited
    /\ call.child_namespace \in visited'

\* no two calls of the run are made for the same child namespace, and the
\* child namespace of every call made is in the VisitedSet
OncePerNamespace ==
    /\ \A i, j \in 1..Len(loader_calls) :
          i # j => loader_calls[i].child_namespace # loader_calls[j].child_namespace
    /\ \A i \in 1..Len(loader_calls) : loader_calls[i].child_namespace \in visited

\* C20: the loader is invoked for a discovered subcrate only with its child
\* namespace newly inserted into the VisitedSet, and with the reference id
\* and the parent namespace as arguments; the VisitedSet never shrinks, so
\* the loader is invoked at most once per child namespace in a run and a
\* failed load is never retried.
C20_LoadOncePerNamespace ==
    /\ [][(LoaderStep => CallAfterClaim) /\ visited \subseteq visited']_vars
    /\ [](OncePerNamespace)

\* a finished run in which a load failed and a later reference of the same
\* parent to the same child namespace was passed over without a second call
C20_Witness ==
    /\ pc = "done"
    /\ \E i \in FailedCalls :
         /\ loader_calls[i].parent_namespace = << >>
         /\ \A j \in 1..Len(loader_calls) :
               j # i => loader_calls[j].child_namespace # loader_calls[i].child_namespace
         /\ LET ids == collect_from_graph(input.main, << >>).subcrate_ids
            IN  Cardinality({k \in 1..Len(ids) :
                    namespace_from_folder_id(ids[k]) = loader_calls[i].child_namespace}) >= 2

----------------------------------------------------------------------------
(* C21: fragment collisions with the top-level document.                   *)

\* the positions of all_local filled by the top-level document
MainLocals ==
    {k \in 1..Len(all_local) :
        k <= Len(collect_from_graph(input.main, << >>).local_entities)}

\* C21: every fragment id of a local entity of every processed document is
\* in the FragmentRegistry once the document has been collected, and a
\* subcrate entity whose fragment id occurs on a local entity of the
\* top-level document is renamed to "#{namespace}-{name}" while the
\* top-level entity keeps the bare fragment.
C21_TopLevelFragmentsRegistered ==
    /\ \A k \in 1..Len(all_local) :
          classify_id(all_local[k].original_id) = "Fragment"
              => all_local[k].original_id \in fragment_tracker
    /\ \A m \in MainLocals : \A k \in SubcrateLocals :
          (/\ classify_id(all_local[m].original_id) = "Fragment"
           /\ all_local[k].original_id = all_local[m].original_id)
              => /\ extract_id(all_local[m].entity) = Some(all_local[m].original_id)
                 /\ extract_id(all_local[k].entity)
                      = Some(<<"#">> \o all_local[k].namespace \o <<"-">>
                             \o Tail(all_local[k].original_id))

----------------------------------------------------------------------------
(* C22: every identifier is looked up once, by its original value.         *)

CollectReturned == pc = "returned" /\ input.fn = "collect_hierarchy"

\* value with the "@id" of every mapping node replaced by map["@id"] when
\* the original "@id" is a key of map, and nothing else changed
RECURSIVE LookupOnce(_, _)
LookupOnce(value, map) ==
    IF IsObj(value)
    THEN Obj([key \in DOMAIN value.v |->
                IF key = "@id" /\ IsStr(value.v[key]) /\ value.v[key].v \in DOMAIN map
                THEN Str(map[value.v[key].v])
                ELSE IF key = "@id" THEN value.v[key]
                ELSE LookupOnce(value.v[key], map)])
    ELSE IF IsArr(value)
    THEN Arr([i \in 1..Len(value.v) |-> LookupOnce(value.v[i], map)])
    ELSE value

\* the identifier map of the document of the call
CallIdMap ==
    LET found == collect_from_graph(input.graph, input.namespace)
        ids == [i \in 1..Len(found.local_entities) |-> found.local_entities[i].original_id]
               \o [i \in 1..Len(found.root_entity) |-> found.root_entity[i].original_id]
    IN  build_id_map(ids, input.namespace, input.used_fragments).map

\* C22: the final form of every local entity is the original entity with
\* each "@id", its own and that of every nested mapping node, looked up in
\* the document's identifier map once by its original value: map[X] when X
\* is a key, X otherwise, also when map[X] is itself a key; nothing but
\* "@id" fields is changed.
C22_SingleLookup ==
    CollectReturned =>
        LET found == collect_from_graph(input.graph, input.namespace).local_entities
        IN  /\ Len(result.value.local) = Len(found)
            /\ \A i \in 1..Len(found) :
                   result.value.local[i].entity = LookupOnce(found[i].entity, CallIdMap)

\* the same for documents in which no rewritten id is itself an original id
C22_SingleLookupUnchained ==
    (/\ CollectReturned
     /\ \A x \in DOMAIN CallIdMap : CallIdMap[x] \notin DOMAIN CallIdMap)
        => LET found == collect_from_graph(input.graph, input.namespace).local_entities
           IN  /\ Len(result.value.local) = Len(found)
               /\ \A i \in 1..Len(found) :
                      result.value.local[i].entity = LookupOnce(found[i].entity, CallIdMap)

----------------------------------------------------------------------------
(* C23: the provenance list of a folder.                                   *)

\* the step synthesizes a folder
FolderStep == Len(subcrate_folders') = Len(subcrate_folders) + 1

\* the positions of the accumulated local entities that originate from
\* namespace N or from a namespace beneath it and carry an identifier
OriginatingUnder(N) ==
    {k \in 1..Len(all_local) :
        /\ HasId(all_local[k].entity)
        /\ \/ all_local[k].namespace = N
           \/ /\ Len(all_local[k].namespace) > Len(N)
              /\ SubSeq(all_local[k].namespace, 1, Len(N) + 1) = N \o <<"/">>}

\* the value v lists, as single-identifier references in accumulation
\* order, exactly the final ids of the local entities at positions ks
ListsExactly(v, ks) ==
    /\ IsArr(v)
    /\ Len(v.v) = Cardinality(ks)
    /\ \A n \in 1..Len(v.v) :
          \E k \in ks :
             /\ Cardinality({j \in ks : j <= k}) = n
             /\ v.v[n] = Ref(IdOf(all_local[k].entity))

\* the folder made by the step, for the document of namespace N, has the
\* provenance list of N
ProvenanceOf(folder, N) ==
    IF OriginatingUnder(N) = {}
    THEN ~HasKey(folder, "consolidatedEntities")
    ELSE /\ HasKey(folder, "consolidatedEntities")
         /\ ListsExactly(folder.v["consolidatedEntities"], OriginatingUnder(N))

\* C23: the consolidatedEntities of a folder synthesized for namespace N
\* lists, as single-identifier references in accumulation order, exactly
\* the final ids of the local entities accumulated from namespace N or from
\* a namespace starting with N + "/"; the property is set only when that
\* list is non-empty; the folder reaches the final graph as synthesized.
C23_FolderProvenance ==
    /\ [][FolderStep =>
             /\ all_local' = all_local
             /\ ProvenanceOf(subcrate_folders'[Len(subcrate_folders')], Top.namespace)]_vars
    /\ [](Succeeded => \A k \in 1..Len(subcrate_folders) :
                           InFinalGraph(subcrate_folders[k]))

\* a folder was synthesized that lists two or more entities, one of them
\* under a rewritten id, and another folder that lists none
C23_Witness ==
    /\ Succeeded
    /\ \E k \in 1..Len(subcrate_folders) :
         /\ HasKey(subcrate_folders[k], "consolidatedEntities")
         /\ Len(subcrate_folders[k].v["consolidatedEntities"].v) >= 2
         /\ \E j \in 1..Len(all_local) :
               /\ extract_id(all_local[j].entity) # Some(all_local[j].original_id)
               /\ InSeq(subcrate_folders[k].v["consolidatedEntities"].v,
                        Ref(IdOf(all_local[j].entity)))
    /\ \E k \in 1..Len(subcrate_folders) :
         ~HasKey(subcrate_folders[k], "consolidatedEntities")

----------------------------------------------------------------------------
(* C24: shared entities are never rewritten.                               *)

\* the step enters collect_hierarchy for a document
EnterStep == Len(stack') = Len(stack) + 1

\* the positions of graph that hold an entity with an Absolute identifier
AbsolutePositions(graph) ==
    {i \in 1..Len(graph) :
        HasId(graph[i]) /\ classify_id(IdOf(graph[i])) = "Absolute"}

\* the entries of all_shared' beyond those of all_shared are the entities
\* of graph with an Absolute identifier, in order and unchanged
AppendedVerbatim(graph) ==
    LET at == AbsolutePositions(graph) IN
    /\ Len(all_shared') = Len(all_shared) + Cardinality(at)
    /\ SubSeq(all_shared', 1, Len(all_shared)) = all_shared
    /\ \A i \in at :
          all_shared'[Len(all_shared) + Cardinality({j \in at : j <= i})].entity
              = graph[i]

\* C24: whatever document and namespace they come from, the entities with
\* an Absolute identifier reach the shared accumulator with their @id and
\* every nested reference unchanged, nothing else touches the accumulator,
\* and an Absolute identifier carried by a single entity appears in the
\* final graph on that entity, verbatim.
C24_SharedNeverRewritten ==
    /\ [][IF EnterStep THEN AppendedVerbatim(stack'[Len(stack')].graph)
          ELSE all_shared' = all_shared]_vars
    /\ [](Succeeded =>
             \A k \in 1..Len(all_shared) :
                 (\A j \in 1..Len(all_shared) :
                      j # k => all_shared[j].original_id # all_shared[k].original_id)
                     => InFinalGraph(all_shared[k].entity))

\* a shared entity that refers to an entity renamed in its document is in
\* the final graph with the reference as it was written
C24_Witness ==
    /\ Succeeded
    /\ \E k \in 1..Len(all_shared) : \E j \in 1..Len(all_local) :
         /\ all_shared[k].namespace # << >>
         /\ all_local[j].namespace = all_shared[k].namespace
         /\ extract_id(all_local[j].entity) # Some(all_local[j].original_id)
         /\ HasKey(all_shared[k].entity, "about")
         /\ all_shared[k].entity.v["about"] = Ref(all_local[j].original_id)
         /\ InFinalGraph(all_shared[k].entity)

----------------------------------------------------------------------------
(* C25: the type of a synthesized folder.                                  *)

FolderReturned == pc = "returned" /\ input.fn = "create_subcrate_folder"

\* the type names of an entity's "@type": a bare string or a list
TypeNames(e) ==
    IF ~HasKey(e, "@type") THEN << >>
    ELSE IF IsStr(e.v["@type"]) THEN <<e.v["@type"].v>>
    ELSE [i \in 1..Len(e.v["@type"].v) |-> e.v["@type"].v[i].v]

\* s without the repetitions of an earlier element
RECURSIVE FirstSeen(_)
FirstSeen(s) ==
    IF s = << >> THEN << >>
    ELSE LET front == FirstSeen(SubSeq(s, 1, Len(s) - 1))
         IN  IF \E i \in 1..Len(front) : front[i] = s[Len(s)]
             THEN front ELSE Append(front, s[Len(s)])

\* the types of the parent reference followed by those of the subcrate root
SourceTypes ==
    (IF IsSome(input.parent_folder) THEN TypeNames(input.parent_folder[1]) ELSE << >>)
    \o TypeNames(input.subcrate_root)

\* the folder's type is encoded as a bare string when it is one name
BareWhenSingle ==
    IF Len(TypeNames(result.value)) = 1 THEN IsStr(result.value.v["@type"])
    ELSE IsArr(result.value.v["@type"])

\* the claim as stated: "Subcrate" is among the types iff the option is set
C25_SubcrateIffOption ==
    FolderReturned =>
        /\ TypeNames(result.value)[1] = DATASET
        /\ InSeq(TypeNames(result.value), SUBCRATE_TYPE_SHORT) <=> input.add_subcrate_type
        /\ BareWhenSingle

\* C25: the type of a synthesized folder is "Dataset", then "Subcrate" when
\* add_subcrate_type is set, then every other distinct type of the parent
\* reference followed by those of the subcrate root in first-seen order
\* ("Subcrate" among them when a source carries it and the option is not
\* set); it is a bare string when "Dataset" is the only type, else a list.
C25_FolderTypes ==
    FolderReturned =>
        /\ TypeNames(result.value)
             = FirstSeen(<<DATASET>>
                         \o (IF input.add_subcrate_type
                             THEN <<SUBCRATE_TYPE_SHORT>> ELSE << >>)
                         \o SourceTypes)
        /\ BareWhenSingle

\* a folder made without the option whose parent reference is typed
\* "Subcrate": the type is kept, after a type seen earlier
C25_Witness ==
    /\ FolderReturned
    /\ ~input.add_subcrate_type
    /\ InSeq(TypeNames(result.value), SUBCRATE_TYPE_SHORT)
    /\ TypeNames(result.value)[2] # SUBCRATE_TYPE_SHORT
    /\ Len(TypeNames(result.value)) >= 4

----------------------------------------------------------------------------
(* C26: what collect flags as a subcrate reference, and the four buckets.  *)

CollectFromGraphReturned == pc = "returned" /\ input.fn = "collect_from_graph"

\* the identifiers a conformsTo value holds: of a single reference object,
\* of the reference objects of a list, or a bare string
ConformsToIds(e) ==
    IF ~HasKey(e, "conformsTo") THEN {}
    ELSE LET c == e.v["conformsTo"]
             idOf(x) == IF HasKey(x, "@id") /\ IsStr(x.v["@id"]) THEN {x.v["@id"].v} ELSE {}
         IN  IF IsStr(c) THEN {c.v}
             ELSE IF IsObj(c) THEN idOf(c)
             ELSE UNION {idOf(c.v[i]) : i \in 1..Len(c.v)}

UnderProfilePrefix(id) ==
    /\ Len(id) >= Len(ROCRATE_PROFILE_PREFIX)
    /\ SubSeq(id, 1, Len(ROCRATE_PROFILE_PREFIX)) = ROCRATE_PROFILE_PREFIX

\* the profile identifier itself without the trailing slash, or a fragment
\* of it
BareProfile(id) ==
    \/ id = ROCRATE_BARE
    \/ /\ Len(id) > Len(ROCRATE_BARE)
       /\ SubSeq(id, 1, Len(ROCRATE_BARE) + 1) = ROCRATE_BARE \o <<"#">>

\* the entities of the graph of the call that carry an identifier
Identified == {i \in 1..Len(input.graph) : HasId(input.graph[i])}

Flagged(i) == InSeq(result.value.subcrate_ids, IdOf(input.graph[i]))

\* how often an entity occurs in the buckets of the collection
BucketCount(e) ==
    LET c == result.value
        in(bucket) == Cardinality({k \in 1..Len(bucket) : bucket[k].entity = e})
    IN  in(c.local_entities) + in(c.shared_entities) + in(c.root_entity)
        + in(c.metadata_descriptor)

\* the entity lands in the one bucket of its kind and in no other
InOwnBucketOnly(e) ==
    LET c == result.value
        kind == classify_id(IdOf(e))
        bucket == IF kind = "Root" THEN c.root_entity
                  ELSE IF kind = "MetadataDescriptor" THEN c.metadata_descriptor
                  ELSE IF kind = "Absolute" THEN c.shared_entities
                  ELSE c.local_entities
    IN  /\ \E k \in 1..Len(bucket) : bucket[k].entity = e
        /\ BucketCount(e) = 1

\* the claim as stated: flagged iff "Dataset" is among the types and the
\* conformsTo holds an identifier under the profile prefix
C26_FlaggedIffUnderPrefix ==
    CollectFromGraphReturned =>
        \A i \in Identified :
            LET e == input.graph[i] IN
            /\ classify_id(IdOf(e)) \in {"Relative", "Fragment", "Absolute"} =>
                  (Flagged(i) <=>
                      /\ InSeq(TypeNames(e), DATASET)
                      /\ \E id \in ConformsToIds(e) : UnderProfilePrefix(id))
            /\ classify_id(IdOf(e)) = "Root" => ~Flagged(i)
            /\ InOwnBucketOnly(e)

\* the entities of the graph whose identifier is of one of the kinds, in
\* graph order
OfKinds(kinds) ==
    LET Test(e) == HasId(e) /\ classify_id(IdOf(e)) \in kinds
    IN  SelectSeq(input.graph, Test)

BucketEntities(bucket) == [k \in 1..Len(bucket) |-> bucket[k].entity]

LastOf(s) == IF s = << >> THEN << >> ELSE << s[Len(s)] >>

\* local and shared hold every entity of their kinds once, in graph order;
\* the root and the descriptor slot hold the last entity of their kind
BucketsByKind ==
    LET c == result.value IN
    /\ BucketEntities(c.local_entities) = OfKinds({"Relative", "Fragment"})
    /\ BucketEntities(c.shared_entities) = OfKinds({"Absolute"})
    /\ BucketEntities(c.root_entity) = LastOf(OfKinds({"Root"}))
    /\ BucketEntities(c.metadata_descriptor) = LastOf(OfKinds({"MetadataDescriptor"}))

\* C26: an entity with a Relative, Fragment or Absolute identifier is
\* flagged as a subcrate reference iff its type list contains "Dataset" and
\* its conformsTo (a single reference object, a list of reference objects,
\* or a bare string) holds an identifier under the RO-Crate profile prefix,
\* or the profile identifier without its trailing slash, or a fragment of
\* that; the bucket does not matter; the Root entity is never flagged;
\* every entity with a Relative, Fragment or Absolute identifier lands once
\* in local or shared, and the root and the descriptor slot hold the last
\* entity of their kind of the graph.
C26_FlaggedIffConformant ==
    CollectFromGraphReturned =>
        \A i \in Identified :
            LET e == input.graph[i] IN
            /\ classify_id(IdOf(e)) \in {"Relative", "Fragment", "Absolute"} =>
                  (Flagged(i) <=>
                      /\ InSeq(TypeNames(e), DATASET)
                      /\ \E id \in ConformsToIds(e) :
                            UnderProfilePrefix(id) \/ BareProfile(id))
            /\ classify_id(IdOf(e)) = "Root" => ~Flagged(i)
            /\ BucketsByKind

\* a collection that flagged a shared entity, a local entity with a list
\* of references, and an entity conforming to the bare profile identifier
C26_Witness ==
    /\ CollectFromGraphReturned
    /\ \E i, j, k \in Identified :
         /\ Flagged(i) /\ classify_id(IdOf(input.graph[i])) = "Absolute"
         /\ Flagged(j) /\ IsArr(input.graph[j].v["conformsTo"])
         /\ Flagged(k) /\ ROCRATE_BARE \in ConformsToIds(input.graph[k])
         /\ ~UnderProfilePrefix(ROCRATE_BARE)
    /\ Len(OfKinds({"Root"})) = 2

----------------------------------------------------------------------------
(* C27: what the statistics count.                                         *)

\* the explicit merge entries collect_hierarchy was entered for so far
MergesEntered ==
    (merge_idx - 1) + (IF stack # << >> /\ stack[1].kind = "merge" THEN 1 ELSE 0)


CratesCounted ==
    stats.crates_consolidated =
        (IF pc = "start" THEN 0 ELSE 1) + Cardinality(ServedCalls) + MergesEntered

\* C27: stats.crates_consolidated equals 1 + the number of discovered
\* subcrates whose load succeeded + the number of explicit merge entries
\* processed, at every point of the run once the top-level crate is
\* collected; a failed load and a skipped already-visited reference change
\* no statistic; after a successful run every explicit merge entry is
\* counted and stats.total_entities equals the length of the final graph.
C27_StatsCount ==
    /\ [](CratesCounted)
    /\ [](Succeeded =>
            /\ stats.crates_consolidated
                 = 1 + Cardinality(ServedCalls) + Len(input.others)
            /\ stats.total_entities = Len(result.graph))
    /\ [][(LoadFailStep \/ (AtSubcrate /\ CurNamespace \in visited))
            => stats' = stats]_vars

\* a successful run with a failed load, a served load and an explicit merge
C27_Witness ==
    /\ Succeeded
    /\ FailedCalls # {}
    /\ ServedCalls # {}
    /\ Len(input.others) >= 1
    /\ stats.crates_consolidated = 2 + Len(input.others)
    /\ stats.total_entities > 4

----------------------------------------------------------------------------
(* C28: the set of claimed namespaces.                                     *)

\* a discovered reference whose namespace is already claimed is up next
AtClaimed == AtSubcrate /\ CurNamespace \in visited

\* a valid explicit merge entry whose namespace is already claimed is up next
AtClaimedMerge ==
    /\ AtMerge
    /\ validate_folder_id(CurMerge.folder_id)
    /\ MergeNamespace \in visited

----------------------------------------------------------------------------
(* C29: references after flattening.                                       *)

\* the identifiers of the reference objects nested in a value
RECURSIVE RefsIn(_)
RefsIn(value) ==
    IF IsObj(value)
    THEN (IF "@id" \in DOMAIN value.v /\ IsStr(value.v["@id"])
          THEN {value.v["@id"].v} ELSE {})
         \cup UNION {RefsIn(value.v[key]) : key \in DOMAIN value.v \ {"@id"}}
    ELSE IF IsArr(value)
    THEN UNION {RefsIn(value.v[i]) : i \in 1..Len(value.v)}
    ELSE {}

\* the identifiers the properties of an entity refer to, its own identifier
\* and the properties named in skip left out
RefsOf(e, skip) ==
    IF IsObj(e)
    THEN UNION {RefsIn(e.v[key]) : key \in DOMAIN e.v \ ({"@id"} \cup skip)}
    ELSE {}

\* X is the original identifier of a local entity of the document with
\* namespace N, and no such entity kept X as its final identifier
Stale(N, X) ==
    LET at == {k \in 1..Len(all_local) :
                 all_local[k].namespace = N /\ all_local[k].original_id = X}
    IN  /\ at # {}
        /\ \A k \in at : HasId(all_local[k].entity) /\ IdOf(all_local[k].entity) # X

\* after a successful run no entity of the final graph that stems from a
\* shared entity of a document still refers to a local entity of that
\* document by an identifier the entity no longer has
SharedRefsResolved ==
    Succeeded =>
        \A k \in 1..Len(all_shared) :
            LET s == all_shared[k] IN
            \A X \in RefsOf(s.entity, {}) :
                Stale(s.namespace, X) =>
                    ~\E g \in 1..Len(result.graph) :
                        /\ HasId(result.graph[g])
                        /\ IdOf(result.graph[g]) = IdOf(s.entity)
                        /\ X \in RefsOf(result.graph[g], {})

\* a folder made for the document with namespace N does not refer, in what
\* it inherits from the root entity of the document, to a local entity of
\* the document by an identifier the entity no longer has
FolderRefsResolved ==
    FolderStep =>
        LET folder == subcrate_folders'[Len(subcrate_folders')]
            N == Top.namespace
            root == collect_from_graph(Top.graph, N).root_entity
        IN  \A X \in RefsOf(folder, {"consolidatedEntities"})
                       \cap RefsOf(root[1].entity, {}) : ~Stale(N, X)

\* a reference of a local entity to a local entity of its document is, in
\* the rewritten entity, a reference to the final identifier of that entity
LocalRefsResolved ==
    EnterStep =>
        LET fr == stack'[Len(stack')]
            src == collect_from_graph(fr.graph, fr.namespace).local_entities
            new == SubSeq(all_local', Len(all_local) + 1, Len(all_local'))
            targets(X) == {j \in 1..Len(src) : src[j].original_id = X}
        IN  /\ Len(new) = Len(src)
            /\ \A k \in 1..Len(src) :
                 \A X \in RefsOf(src[k].entity, {}) :
                    targets(X) # {} =>
                        \E j \in targets(X) :
                            IdOf(new[j].entity) \in RefsOf(new[k].entity, {})

C29_LocalPart == [][LocalRefsResolved]_vars
C29_FolderPart == [][FolderRefsResolved]_vars

\* C29: after flattening, every reference that pointed, in its source
\* document, at a local entity of that document points at the final
\* identifier of that entity: inside the local entities, inside what a
\* synthesized folder inherits from the root entity of the subcrate, and
\* inside the shared entities taken from a subcrate.
C29_ReferentialIntegrity ==
    /\ [][LocalRefsResolved]_vars
    /\ [][FolderRefsResolved]_vars
    /\ [](SharedRefsResolved)

----------------------------------------------------------------------------
(* C30: conservation of the local entities.                                *)

\* the positions of a graph that hold an entity with a Relative or a
\* Fragment identifier
LocalPositions(graph) ==
    {p \in 1..Len(graph) :
        HasId(graph[p]) /\ classify_id(IdOf(graph[p])) \in {"Relative", "Fragment"}}

\* the documents processed so far, each with the namespace it was collected
\* under: the top-level graph, the documents the loader served, and the
\* graphs of the explicit merge entries collect_hierarchy was entered for
ProcessedDocuments ==
    (IF pc = "start" THEN {}
     ELSE {[kind |-> "main", at |-> 0, namespace |-> << >>, graph |-> input.main]})
    \cup {[kind |-> "sub", at |-> i, namespace |-> loader_calls[i].child_namespace,
           graph |-> LoaderDocs[loader_calls[i].outcome]] : i \in ServedCalls}
    \cup {[kind |-> "merge", at |-> i,
           namespace |-> namespace_from_folder_id(input.others[i].folder_id),
           graph |-> input.others[i].graph] : i \in 1..MergesEntered}

\* every local entity of every processed document, by document and position
SourceLocals ==
    UNION {{[doc |-> d, pos |-> p] : p \in LocalPositions(d.graph)} :
              d \in ProcessedDocuments}

\* as many accumulated local entities stem from (namespace, original id) as
\* the processed documents of that namespace hold entities of that id
CountsAgree ==
    /\ Cardinality(SourceLocals) = Len(all_local)
    /\ \A s \in SourceLocals :
         LET N == s.doc.namespace
             X == IdOf(s.doc.graph[s.pos])
         IN  Cardinality({t \in SourceLocals :
                             t.doc.namespace = N /\ IdOf(t.doc.graph[t.pos]) = X})
             = Cardinality({k \in 1..Len(all_local) :
                             all_local[k].namespace = N /\ all_local[k].original_id = X})

\* the local entities of the top-level document come first, unchanged
TopLevelUnchanged ==
    LET Test(e) == HasId(e) /\ classify_id(IdOf(e)) \in {"Relative", "Fragment"}
        own == SelectSeq(input.main, Test)
    IN  pc # "start" =>
          /\ Len(all_local) >= Len(own)
          /\ \A k \in 1..Len(own) :
               /\ all_local[k].entity = own[k]
               /\ all_local[k].namespace = << >>

\* the final graph holds the accumulated local entities, each once, after
\* the descriptor and the root
LocalSegment ==
    /\ Len(result.graph) >= 2 + Len(all_local)
    /\ \A k \in 1..Len(all_local) : result.graph[2 + k] = all_local[k].entity
    /\ stats.total_entities
         = 2 + Len(all_local) + Len(subcrate_folders)
             + Cardinality(GroupIds(all_shared))

\* C30: every entity with a Relative or Fragment identifier of every
\* processed document (the top-level graph, each document the loader
\* served, each explicit merge graph) is accumulated exactly once, none
\* dropped and none duplicated; the final graph of a successful run holds
\* exactly these as its local entities; and the local entities of the
\* top-level document appear with identifier and properties unchanged.
C30_LocalsConserved ==
    /\ CountsAgree
    /\ TopLevelUnchanged
    /\ Succeeded => LocalSegment

\* a successful run over a top-level document with local entities, a served
\* subcrate and an explicit merge, in which a local entity was renamed
C30_Witness ==
    /\ Succeeded
    /\ ServedCalls # {}
    /\ Len(input.others) >= 1
    /\ LocalPositions(input.main) # {}
    /\ \E i \in ServedCalls : LocalPositions(LoaderDocs[loader_calls[i].outcome]) # {}
    /\ \E k \in 1..Len(all_local) :
         /\ all_local[k].namespace # << >>
         /\ IdOf(all_local[k].entity) # all_local[k].original_id
    /\ Len(all_local) >= 5

====
